---------------------------- MODULE Spec2Model ----------------------------
(***************************************************************************)
(* A model of telemirror's routing-and-transformation engine:              *)
(*   - the entity offset algebra (UpdateEntitiesParams) and the keyword    *)
(*     substitution filter built on it,                                    *)
(*   - the composite filter pipeline,                                      *)
(*   - the in-memory Mirror Index (InMemoryDatabase over LRUCache),        *)
(*   - the event processor (new message, album, edit, delete) and the      *)
(*     handlers that the messaging client runs for incoming events.        *)
(* Each part has its own specification over the shared variables.          *)
(***************************************************************************)
EXTENDS Integers, Sequences, FiniteSets, TLC

(***************************************************************************)
(* Bounds of the model.                                                    *)
(***************************************************************************)
MaxTextLen == 4
MaxEntities == 2
MaxReplLen == 3
MaxChainLen == 3
MaxWords == 3
KwMaxEntities == 1
MaxCapacity == 4
MaxEvents == 2
MaxFailures == 1

VARIABLES
    \* -- entity offset model (one update_entities_params call) --
    text_len,       \* length of the text being rewritten
    entities,       \* the spans, a sequence of [offset, length]
    old_entities,   \* the spans as they were before the call
    splice,         \* the call made: [start, end, diff], or NoCall
    \* -- KeywordReplaceFilter._process_message --
    kw_keywords,    \* the configured keyword -> replacement pairs, in dict order
    kw_text,        \* message.message, a sequence of characters
    kw_entities,    \* message.entities
    kw_input,       \* the message as received: [text, entities]
    kw_done,        \* whether _process_message has returned
    \* -- CompositeMessageFilter.process --
    chain,          \* self._filters, a sequence of filter kinds
    flt_input,      \* the entity handed to process
    flt_result,     \* what process returned: [action, entity, ran], or NoCall
    \* -- Mirror Index, in-memory backend --
    capacity,       \* LRUCache.capacity (InMemoryDatabase max_capacity)
    storage,        \* the LRUCache: entries [key, value], least recently used first
    db_last,        \* the last database call made directly: [op, ids, result, evicted]
                    \* (ids: the id inserted or the ids looked up)
    table,          \* the rows of binding_id, where the persistent backend is
                    \* driven side by side with the in-memory one
    \* -- event processor and handlers --
    backend,        \* the Database implementation: "memory" or "postgres"
    chat_mapping,   \* the directions of the source chat, in iteration order
    tasks,          \* the handler tasks, in the delivery order of their events
    next_id,        \* per chat, the id its next message gets
    failures,       \* how many calls have failed so far
    mirrored,       \* the messages the client has sent to the destinations, each
                    \* with the original it copies and the direction that sent it
    \* -- UrlMatcher and UrlMessageFilter --
    url_input,      \* the call made: its arguments and the object's configuration
    url_result,     \* what the call returned, or NoCall
    \* -- PostgresDatabase and its connection pool --
    pool_out,       \* the connections of the pool that are checked out
    pg_ops          \* the operations under way, per caller: [name, pc, holds]

NoCall == [none |-> TRUE]

spliceVars == <<text_len, entities, old_entities, splice>>
kwVars == <<kw_keywords, kw_text, kw_entities, kw_input, kw_done>>
fltVars == <<chain, flt_input, flt_result>>
dbVars == <<capacity, storage, db_last>>
procVars == <<backend, chat_mapping, tasks, next_id, failures, mirrored>>
pgVars == <<table>>
urlVars == <<url_input, url_result>>
poolVars == <<pool_out, pg_ops>>
otherVars == <<spliceVars, kwVars, fltVars, pgVars, urlVars, poolVars>>
vars == <<spliceVars, kwVars, fltVars, pgVars, urlVars, poolVars, dbVars, procVars>>

(***************************************************************************)
(* Generic helpers.                                                        *)
(***************************************************************************)
SeqsUpTo(S, n) == UNION {[1..k -> S] : k \in 0..n}

RECURSIVE SumSeq(_)
SumSeq(s) == IF s = <<>> THEN 0 ELSE Head(s) + SumSeq(Tail(s))

RECURSIVE Concat(_)
Concat(ss) == IF ss = <<>> THEN <<>> ELSE Head(ss) \o Concat(Tail(ss))

(***************************************************************************)
(* Entity offset model: src/telemirror/mixins.py, UpdateEntitiesParams.    *)
(***************************************************************************)
Span(o, l) == [offset |-> o, length |-> l]

\* The spans that lie inside a text of length n.
SpansIn(n) == {s \in [offset : 0..n, length : 1..n] : s.offset + s.length <= n}

InBounds(e, n) == 0 <= e.offset /\ e.offset + e.length <= n

\* The body of the loop of update_entities_params, for one entity.
UpdateEntity(e, start, end, diff) ==
    IF e.offset >= end
    THEN \* After
         [e EXCEPT !.offset = @ + diff]
    ELSE IF e.offset <= start /\ e.offset + e.length >= end
    THEN \* Before & After
         [e EXCEPT !.length = @ + diff]
    ELSE IF e.offset < start /\ start < e.offset + e.length
            /\ e.offset + e.length < end
    THEN \* Before with partial overlap
         [e EXCEPT !.length = @ - ((e.offset + e.length) - start)]
    ELSE IF start < e.offset /\ e.offset < end /\ e.offset + e.length > end
    THEN \* After with partial overlap
         [e EXCEPT !.offset = end + diff]
    ELSE IF start < e.offset /\ e.offset < end
            /\ start < e.offset + e.length /\ e.offset + e.length < end
    THEN \* Fully inside: resize to match entity
         [e EXCEPT !.offset = start, !.length = (end - start) + diff]
    ELSE e

update_entities_params(ents, start, end, diff) ==
    IF ents = <<>> \/ diff = 0
    THEN ents
    ELSE [i \in 1..Len(ents) |-> UpdateEntity(ents[i], start, end, diff)]

\* A text of some length with in-bounds spans, before any rewrite.
SpliceInit ==
    /\ text_len \in 0..MaxTextLen
    /\ entities \in SeqsUpTo(SpansIn(text_len), MaxEntities)
    /\ old_entities = entities
    /\ splice = NoCall

\* A filter replaces text[start:end] by a replacement of length repl_len and
\* calls update_entities_params(entities, start, end, repl_len - (end - start)).
Splice(start, end, repl_len) ==
    /\ splice = NoCall
    /\ 0 <= start /\ start < end /\ end <= text_len
    /\ LET diff == repl_len - (end - start) IN
        /\ entities' = update_entities_params(entities, start, end, diff)
        /\ text_len' = text_len + diff
        /\ splice' = [start |-> start, end |-> end, diff |-> diff]
    /\ old_entities' = entities

SpliceIdle ==
    /\ text_len = 0
    /\ entities = <<>>
    /\ old_entities = <<>>
    /\ splice = NoCall

KwIdle ==
    /\ kw_keywords = <<>>
    /\ kw_text = <<>>
    /\ kw_entities = <<>>
    /\ kw_input = NoCall
    /\ kw_done = FALSE

FltIdle ==
    /\ chain = <<>>
    /\ flt_input = NoCall
    /\ flt_result = NoCall

DbIdle ==
    /\ capacity = 1
    /\ storage = <<>>
    /\ db_last = NoCall
    /\ table = <<>>

UrlIdle ==
    /\ url_input = NoCall
    /\ url_result = NoCall

PoolIdle ==
    /\ pool_out = 0
    /\ pg_ops = <<>>

ProcIdle ==
    /\ backend = "memory"
    /\ chat_mapping = <<>>
    /\ tasks = <<>>
    /\ next_id = <<>>
    /\ failures = 0
    /\ mirrored = {}

SpliceNext ==
    \E start \in 0..MaxTextLen, end \in 0..MaxTextLen, repl_len \in 0..MaxReplLen :
        Splice(start, end, repl_len)


\* C6. If every span lies inside the text before a splice, every span lies
\* inside the new text after update_entities_params.
C6_SpansStayInBounds ==
    (splice # NoCall /\ \A i \in 1..Len(old_entities) :
                            InBounds(old_entities[i], text_len - splice.diff))
        => \A i \in 1..Len(entities) : InBounds(entities[i], text_len)

\* C26. A span that overlaps only the right edge of the mutated range
\* (start < offset < end <= offset+length) ends with offset = end + d and with
\* the length of its surviving tail, (old offset + old length) - end.
C26_RightOverlapKeepsTail ==
    splice # NoCall
    => \A i \in 1..Len(old_entities) :
          (/\ splice.start < old_entities[i].offset
           /\ old_entities[i].offset < splice.end
           /\ splice.end <= old_entities[i].offset + old_entities[i].length)
          => entities[i] = Span(splice.end + splice.diff,
                                (old_entities[i].offset + old_entities[i].length) - splice.end)

\* C27. A span that lies fully inside the mutated range (start <= offset and
\* offset+length <= end, spans touching an edge included) ends with
\* offset = start and the length of the replacement.
C27_InsideCollapses ==
    splice # NoCall
    => \A i \in 1..Len(old_entities) :
          (/\ splice.start <= old_entities[i].offset
           /\ old_entities[i].offset + old_entities[i].length <= splice.end)
          => entities[i] = Span(splice.start, (splice.end - splice.start) + splice.diff)

InitSplice == SpliceInit /\ KwIdle /\ FltIdle /\ DbIdle /\ ProcIdle /\ UrlIdle /\ PoolIdle
NextSplice == SpliceNext /\ UNCHANGED <<kwVars, fltVars, pgVars, urlVars, poolVars, dbVars, procVars>>
SpecSplice == InitSplice /\ [][NextSplice]_vars

(***************************************************************************)
(* KeywordReplaceFilter: src/telemirror/messagefilters/messagefilters.py.  *)
(* A text is a sequence of characters; " " is the only non-word character  *)
(* and every letter is lower case, so the case style of a match is always  *)
(* "all lower" and the replacement is used as r.lower().                   *)
(***************************************************************************)
IsWordChar(c) == c # " "

Lower(s) == [i \in 1..Len(s) |->
                CASE s[i] = "A" -> "a" [] s[i] = "B" -> "b" [] OTHER -> s[i]]

\* The regex \bk\b (a keyword of word characters) matches text[i : i+len(k)].
MatchAt(text, k, i) ==
    /\ i + Len(k) <= Len(text)
    /\ SubSeq(text, i + 1, i + Len(k)) = k
    /\ (i = 0 \/ ~IsWordChar(text[i]))
    /\ (i + Len(k) = Len(text) \/ ~IsWordChar(text[i + Len(k) + 1]))

\* The non-overlapping matches re.sub visits, left to right, from pos on.
RECURSIVE FindAll(_, _, _)
FindAll(text, k, pos) ==
    IF pos + Len(k) > Len(text) THEN <<>>
    ELSE IF MatchAt(text, k, pos)
         THEN <<[start |-> pos, end |-> pos + Len(k)]>>
              \o FindAll(text, k, pos + Len(k))
         ELSE FindAll(text, k, pos + 1)

\* The text k.sub(repl, text) returns: every match replaced by what repl returns.
RECURSIVE SubText(_, _, _, _)
SubText(text, k, v, pos) ==
    IF pos >= Len(text) THEN <<>>
    ELSE IF MatchAt(text, k, pos)
         THEN Lower(v) \o SubText(text, k, v, pos + Len(k))
         ELSE <<text[pos + 1]>> \o SubText(text, k, v, pos + 1)

\* The calls of repl for the matches of one k.sub: each updates the entities
\* and adds its diff to entities_offset_error. Returns [entities, err].
RECURSIVE ReplCalls(_, _, _, _)
ReplCalls(matches, v, ents, err) ==
    IF matches = <<>> THEN [entities |-> ents, err |-> err]
    ELSE LET m == Head(matches)
             diff == Len(v) - (m.end - m.start)
         IN ReplCalls(Tail(matches), v,
                      update_entities_params(ents, m.start + err, m.end + err, diff),
                      err + diff)

\* The loop over self._lookup_regex: entities_offset_error is declared once,
\* before the loop, and carried from one keyword to the next.
RECURSIVE KeywordLoop(_, _, _, _)
KeywordLoop(keywords, text, ents, err) ==
    IF keywords = <<>> THEN [text |-> text, entities |-> ents]
    ELSE LET k == Head(keywords).k
             v == Head(keywords).v
             r == ReplCalls(FindAll(text, k, 0), v, ents, err)
         IN KeywordLoop(Tail(keywords), SubText(text, k, v, 0), r.entities, r.err)

KeywordReplaceProcessMessage(keywords, text, ents) ==
    IF text = <<>>
    THEN [text |-> text, entities |-> ents]
    ELSE KeywordLoop(keywords, text, ents, 0)

\* Inputs: words joined by single spaces, and the keyword maps tried.
WordAA == <<"a", "a">>
WordBB == <<"b", "b">>
WordY == <<"y">>
Words == {WordAA, WordBB, WordY}

RECURSIVE JoinWords(_)
JoinWords(ws) ==
    IF ws = <<>> THEN <<>>
    ELSE IF Len(ws) = 1 THEN Head(ws)
    ELSE Head(ws) \o <<" ">> \o JoinWords(Tail(ws))

KeywordMaps ==
    { << [k |-> WordAA, v |-> <<"a">>] >>,
      << [k |-> WordAA, v |-> <<"a", "a", "a", "a">>] >>,
      << [k |-> WordAA, v |-> <<"a", "a", "a", "a">>], [k |-> WordBB, v |-> <<"b">>] >>,
      << [k |-> WordBB, v |-> <<"b">>], [k |-> WordAA, v |-> <<"a", "a", "a", "a">>] >> }

KwInit ==
    /\ kw_keywords \in KeywordMaps
    /\ kw_text \in {JoinWords(ws) : ws \in SeqsUpTo(Words, MaxWords)}
    /\ kw_entities \in SeqsUpTo(SpansIn(Len(kw_text)), KwMaxEntities)
    /\ kw_input = [text |-> kw_text, entities |-> kw_entities]
    /\ kw_done = FALSE

\* KeywordReplaceFilter._process_message, start to finish.
KeywordReplace ==
    /\ ~kw_done
    /\ LET r == KeywordReplaceProcessMessage(kw_keywords, kw_text, kw_entities) IN
        /\ kw_text' = r.text
        /\ kw_entities' = r.entities
    /\ kw_done' = TRUE
    /\ UNCHANGED <<kw_keywords, kw_input>>

(***************************************************************************)
(* What the text says a span that overlaps no match must become: in each   *)
(* pass (one keyword over the text as it then is) the span moves by the    *)
(* sum of the deltas of the matches that end at or before it.              *)
(***************************************************************************)
Overlaps(e, m) == e.offset < m.end /\ m.start < e.offset + e.length

RECURSIVE DeltaBefore(_, _, _)
DeltaBefore(matches, v, e) ==
    IF matches = <<>> THEN 0
    ELSE (IF Head(matches).end <= e.offset
          THEN Len(v) - (Head(matches).end - Head(matches).start) ELSE 0)
         + DeltaBefore(Tail(matches), v, e)

\* [offset, length, hit]: hit once some match overlapped the span.
RECURSIVE ExpectedSpan(_, _, _)
ExpectedSpan(keywords, text, e) ==
    IF keywords = <<>> THEN e
    ELSE LET k == Head(keywords).k
             v == Head(keywords).v
             ms == FindAll(text, k, 0)
             hit == \E i \in 1..Len(ms) : Overlaps(e, ms[i])
         IN IF e.hit \/ hit THEN [e EXCEPT !.hit = TRUE]
            ELSE ExpectedSpan(Tail(keywords), SubText(text, k, v, 0),
                              [e EXCEPT !.offset = @ + DeltaBefore(ms, v, e)])

\* The number of matches replaced over the whole pass of the filter.
RECURSIVE MatchCount(_, _)
MatchCount(keywords, text) ==
    IF keywords = <<>> THEN 0
    ELSE Len(FindAll(text, Head(keywords).k, 0))
         + MatchCount(Tail(keywords), SubText(text, Head(keywords).k, Head(keywords).v, 0))

\* C7. When KeywordReplaceFilter has replaced the keyword matches of a message,
\* every span that overlaps no match has its length unchanged and its offset
\* equal to its original offset plus the deltas of the matches before it.
C7_CumulativeOffset ==
    kw_done =>
        \A i \in 1..Len(kw_input.entities) :
            LET e0 == kw_input.entities[i]
                x == ExpectedSpan(kw_keywords, kw_input.text,
                                  [offset |-> e0.offset, length |-> e0.length,
                                   hit |-> FALSE])
            IN ~x.hit => kw_entities[i] = Span(x.offset, e0.length)

InitKw == KwInit /\ SpliceIdle /\ FltIdle /\ DbIdle /\ ProcIdle /\ UrlIdle /\ PoolIdle
NextKw == KeywordReplace /\ UNCHANGED <<spliceVars, fltVars, pgVars, urlVars, poolVars, dbVars, procVars>>
SpecKw == InitKw /\ [][NextKw]_vars

(***************************************************************************)
(* Filter pipeline: src/telemirror/messagefilters/base.py and the catalog  *)
(* of src/telemirror/messagefilters/messagefilters.py.                     *)
(* A message is [id, text, hdr]: text is "" (empty), "plain" or "kw" (a    *)
(* text holding a configured keyword); hdr counts the forwarding headers   *)
(* injected into it.                                                       *)
(***************************************************************************)
Texts == {"", "plain", "kw"}

Message(id, text) == [id |-> id, text |-> text, hdr |-> 0]

\* FilterAction(int, Enum), and the legacy booleans some filters return.
FilterActions == {"CONTINUE", "FORCE_SEND", "DISCARD"}
LegacyActions == {"True", "False"}

\* The integer an action compares equal to (FilterAction is an int enum, and
\* bool is an int).
IntValue(a) ==
    CASE a = "CONTINUE" -> 0
      [] a = "FORCE_SEND" -> 1
      [] a = "DISCARD" -> 2
      [] a = "True" -> 1
      [] a = "False" -> 0

\* The filters: the catalog's, and user filters (src/custom) that implement
\* RestrictSavingContentBypassFilter as its docstring shows, force the send,
\* or follow the legacy boolean convention.
FilterKinds == {"Empty", "SkipAll", "ForwardFormat", "SkipWithKeywords",
                "KeywordReplace", "RestrictSavingBypass", "ForceSend",
                "LegacyTrue", "LegacyFalse"}

ReturnsFilterAction(kind) == kind \notin {"LegacyTrue", "LegacyFalse"}

\* f.process(message, event_type) of one filter: [action, entity].
FilterProcessMessage(kind, m, event_type) ==
    CASE kind = "Empty" -> [action |-> "CONTINUE", entity |-> m]
      [] kind = "SkipAll" -> [action |-> "DISCARD", entity |-> m]
      [] kind = "ForwardFormat" ->
            [action |-> "CONTINUE", entity |-> [m EXCEPT !.hdr = @ + 1]]
      [] kind = "SkipWithKeywords" ->
            [action |-> IF m.text = "kw" THEN "DISCARD" ELSE "CONTINUE",
             entity |-> m]
      [] kind = "KeywordReplace" ->
            [action |-> "CONTINUE",
             entity |-> IF m.text = "kw" THEN [m EXCEPT !.text = "plain"] ELSE m]
      [] kind = "RestrictSavingBypass" -> [action |-> "CONTINUE", entity |-> m]
      [] kind = "ForceSend" -> [action |-> "FORCE_SEND", entity |-> m]
      [] kind = "LegacyTrue" -> [action |-> "True", entity |-> m]
      [] kind = "LegacyFalse" -> [action |-> "False", entity |-> m]
      [] kind = "RaiseOnKeyword" ->
            [action |-> IF m.text = "kw" THEN "raise" ELSE "CONTINUE", entity |-> m]

\* The action taken for a boolean: a falsy one (CONTINUE is 0) discards.
MatchCaseByTruth(a) == IF IntValue(a) = 0 THEN "DISCARD" ELSE "continue"

\* MatchCase without its FORCE_SEND case: every action but DISCARD goes on.
MatchCaseNoForceSend(a) ==
    IF IntValue(a) = IntValue("DISCARD") \/ a = "False" THEN "DISCARD" ELSE "continue"

\* The match statement of CompositeMessageFilter.process: which case takes
\* the action. A dotted name is compared with ==, True and False by identity.
MatchCase(a) ==
    IF IntValue(a) = IntValue("CONTINUE") \/ a = "True" THEN "continue"
    ELSE IF IntValue(a) = IntValue("DISCARD") \/ a = "False" THEN "DISCARD"
    ELSE IF IntValue(a) = IntValue("FORCE_SEND") THEN "FORCE_SEND"
    ELSE "continue"

\* The call of a filter has not returned: its exception leaves the caller's
\* loop before the match statement.
Raised(r) == r.action = "raise"

\* The loop of CompositeMessageFilter.process from child i on; ran lists the
\* children called so far, each with the entity it was given.
RECURSIVE CompositeLoop(_, _, _, _, _)
CompositeLoop(filters, entity, event_type, i, ran) ==
    IF i > Len(filters)
    THEN [action |-> "CONTINUE", entity |-> entity, ran |-> ran]
    ELSE LET r == FilterProcessMessage(filters[i], entity, event_type)
             ran2 == Append(ran, [idx |-> i, input |-> entity])
             c == MatchCase(r.action)
         IN IF Raised(r) THEN [action |-> "raise", entity |-> r.entity, ran |-> ran2]
            ELSE IF c = "continue"
            THEN CompositeLoop(filters, r.entity, event_type, i + 1, ran2)
            ELSE [action |-> c, entity |-> r.entity, ran |-> ran2]

CompositeProcess(filters, entity, event_type) ==
    CompositeLoop(filters, entity, event_type, 1, <<>>)

FltInit ==
    /\ chain \in SeqsUpTo(FilterKinds, MaxChainLen)
    /\ flt_input \in {Message(1, t) : t \in Texts}
    /\ flt_result = NoCall

\* CompositeMessageFilter.process on a new message, start to finish.
FltProcess ==
    /\ flt_result = NoCall
    /\ flt_result' = CompositeProcess(chain, flt_input, "NewMessage")
    /\ UNCHANGED <<chain, flt_input>>

\* Every child run on the output of the one before, no child skipped.
RECURSIVE OutputAfter(_, _, _)
OutputAfter(filters, entity, i) ==
    IF i = 0 THEN entity
    ELSE FilterProcessMessage(filters[i], OutputAfter(filters, entity, i - 1),
                              "NewMessage").entity

ActionOf(filters, entity, i) ==
    FilterProcessMessage(filters[i], OutputAfter(filters, entity, i - 1),
                         "NewMessage").action

\* The first child that answers DISCARD or FORCE_SEND, 0 if none does.
FirstStop(filters, entity) ==
    LET S == {i \in 1..Len(filters) :
                ActionOf(filters, entity, i) \in {"DISCARD", "FORCE_SEND"}}
    IN IF S = {} THEN 0 ELSE CHOOSE i \in S : \A j \in S : i <= j

\* C5. CompositeMessageFilter.process runs its children in declared order, each
\* on the previous child's output; it returns DISCARD or FORCE_SEND as soon as a
\* child returns it, running no later child, and CONTINUE only after every child
\* ran and returned CONTINUE (children that return a FilterAction).
C5_CompositeShortCircuit ==
    (flt_result # NoCall /\ \A i \in 1..Len(chain) : ReturnsFilterAction(chain[i]))
    => LET s == FirstStop(chain, flt_input)
           last == IF s = 0 THEN Len(chain) ELSE s
       IN /\ Len(flt_result.ran) = last
          /\ \A j \in 1..Len(flt_result.ran) :
                /\ flt_result.ran[j].idx = j
                /\ flt_result.ran[j].input = OutputAfter(chain, flt_input, j - 1)
          /\ flt_result.entity = OutputAfter(chain, flt_input, last)
          /\ flt_result.action =
                (IF s = 0 THEN "CONTINUE" ELSE ActionOf(chain, flt_input, s))
          /\ flt_result.action = "CONTINUE" =>
                \A i \in 1..Len(chain) : ActionOf(chain, flt_input, i) = "CONTINUE"

\* The chain [PassThrough, Discard, HeaderInject] has answered DISCARD after
\* running its first two children only.
C5_Witness ==
    /\ flt_result # NoCall
    /\ chain = <<"Empty", "SkipAll", "ForwardFormat">>
    /\ flt_result.action = "DISCARD"
    /\ Len(flt_result.ran) = 2
    /\ flt_result.entity.hdr = 0

InitFilter == FltInit /\ SpliceIdle /\ KwIdle /\ DbIdle /\ ProcIdle /\ UrlIdle /\ PoolIdle
NextFilter == FltProcess /\ UNCHANGED <<spliceVars, kwVars, pgVars, urlVars, poolVars, dbVars, procVars>>
SpecFilter == InitFilter /\ [][NextFilter]_vars

(***************************************************************************)
(* Mirror Index, in-memory backend: src/telemirror/misc/lrucache.py and    *)
(* InMemoryDatabase of src/telemirror/storage.py.                          *)
(* The cache is the sequence of its entries in the order OrderedDict keeps *)
(* them: the first entry is the one next(iter(self)) returns.              *)
(***************************************************************************)
\* free_factor = FreeFactorNum / FreeFactorDen, the default 0.5.
FreeFactorNum == 1
FreeFactorDen == 2

Max(a, b) == IF a >= b THEN a ELSE b

MirrorMessage(original_id, original_channel, mirror_id, mirror_channel) ==
    [original_id |-> original_id, original_channel |-> original_channel,
     mirror_id |-> mirror_id, mirror_channel |-> mirror_channel]

\* f"{original_channel}:{original_id}": distinct pairs give distinct strings.
BuildMessageKey(original_id, original_channel) == <<original_channel, original_id>>

KeysOf(st) == {st[i].key : i \in 1..Len(st)}

KeyOrder(st) == [i \in 1..Len(st) |-> st[i].key]

IndexOf(st, key) == CHOOSE i \in 1..Len(st) : st[i].key = key

Without(st, key) == SelectSeq(st, LAMBDA en : en.key # key)

\* dict.get(key, default): a plain dict lookup, which does not go through
\* LRUCache.__getitem__.
DictGet(st, key, default) ==
    IF key \in KeysOf(st) THEN st[IndexOf(st, key)].value ELSE default

\* OrderedDict.move_to_end(key).
MoveToEnd(st, key) == Append(Without(st, key), st[IndexOf(st, key)])

\* OrderedDict.__setitem__: a new key goes last, a known key keeps its place.
OdSetItem(st, key, value) ==
    IF key \in KeysOf(st)
    THEN [st EXCEPT ![IndexOf(st, key)].value = value]
    ELSE Append(st, [key |-> key, value |-> value])

\* len(self) > self.keep_last, with keep_last = max(1.0, capacity * (1.0 - free_factor)).
AboveKeepLast(n, cap) ==
    n * FreeFactorDen > Max(FreeFactorDen, cap * (FreeFactorDen - FreeFactorNum))

\* Evict without the loop: nothing is ever removed.
EvictNothing(st, cap) == st

\* Evict from the wrong end: the most recently used entries go first.
RECURSIVE EvictNewest(_, _)
EvictNewest(st, cap) ==
    IF AboveKeepLast(Len(st), cap)
    THEN EvictNewest(SubSeq(st, 1, Len(st) - 1), cap)
    ELSE st

\* while len(self) > self.keep_last: delete next(iter(self)).
RECURSIVE Evict(_, _)
Evict(st, cap) ==
    IF AboveKeepLast(Len(st), cap) THEN Evict(Tail(st), cap) ELSE st

\* LRUCache.__setitem__.
LruSetItem(st, cap, key, value) ==
    LET st1 == MoveToEnd(OdSetItem(st, key, value), key)
    IN IF Len(st1) > cap THEN Evict(st1, cap) ELSE st1

\* setdefault taken for an assignment: the default is stored whether or not
\* the key is present.
LruSetDefaultAlwaysSet(st, cap, key, default) == LruSetItem(st, cap, key, default)

\* LRUCache.__getitem__ of a key that is present: the cache afterwards.
LruGetItem(st, key) == MoveToEnd(st, key)

\* OrderedDict.setdefault on the subclass: __getitem__ when the key is present,
\* __setitem__(key, default) when it is not. The cache afterwards.
LruSetDefault(st, cap, key, default) ==
    IF key \in KeysOf(st) THEN LruGetItem(st, key)
    ELSE LruSetItem(st, cap, key, default)

\* list.append on the list setdefault returned, which is the cache's own.
AppendUnder(st, key, entity) ==
    IF key \in KeysOf(st)
    THEN [st EXCEPT ![IndexOf(st, key)].value = Append(@, entity)]
    ELSE st

\* InMemoryDatabase.insert: the cache afterwards.
DbInsert(st, cap, entity) ==
    LET key == BuildMessageKey(entity.original_id, entity.original_channel)
    IN AppendUnder(LruSetDefault(st, cap, key, <<>>), key, entity)

\* InMemoryDatabase.insert_batch.
RECURSIVE DbInsertBatch(_, _, _)
DbInsertBatch(st, cap, es) ==
    IF es = <<>> THEN st
    ELSE DbInsertBatch(DbInsert(st, cap, Head(es)), cap, Tail(es))

\* The cache after a lookup made with self.__storage.pop(key, []).
DbPopOnGet(st, original_id, original_channel) ==
    SelectSeq(st, LAMBDA e : e.key # BuildMessageKey(original_id, original_channel))

\* The cache after InMemoryDatabase.get_messages: self.__storage.get(key, []).
DbTouchOnGet(st, original_id, original_channel) == st

\* InMemoryDatabase.get_messages: the list returned.
DbGetMessages(st, original_id, original_channel) ==
    DictGet(st, BuildMessageKey(original_id, original_channel), <<>>)

\* InMemoryDatabase.get_messages_batch: the list returned.
RECURSIVE DbGetMessagesBatch(_, _, _)
DbGetMessagesBatch(st, original_ids, original_channel) ==
    IF original_ids = <<>> THEN <<>>
    ELSE DbGetMessages(st, Head(original_ids), original_channel)
         \o DbGetMessagesBatch(st, Tail(original_ids), original_channel)

\* InMemoryDatabase.delete_messages: pop(key, None).
DbDeleteMessages(st, original_id, original_channel) ==
    Without(st, BuildMessageKey(original_id, original_channel))

\* InMemoryDatabase.delete_messages_batch.
RECURSIVE DbDeleteMessagesBatch(_, _, _)
DbDeleteMessagesBatch(st, original_ids, original_channel) ==
    IF original_ids = <<>> THEN st
    ELSE DbDeleteMessagesBatch(DbDeleteMessages(st, Head(original_ids), original_channel),
                               Tail(original_ids), original_channel)

(***************************************************************************)
(* The database driven call by call. The records offered for one original  *)
(* message are its mirrors in the destinations, in routing order, each     *)
(* inserted at most once while the key is held.                            *)
(***************************************************************************)
\* The chat mapping: one source chat mirrored to two destinations.
Routing == [source |-> 1, destinations |-> <<10, 20>>]
SourceChat == Routing.source
Destinations == Routing.destinations
OriginalIds == {1, 2, 3, 4, 5}

\* The record of the next mirror of message id, given the records held for it.
NextRecord(st, id) ==
    LET held == DbGetMessages(st, id, SourceChat)
        d == Len(held) + 1
    IN MirrorMessage(id, SourceChat, 100 * d + id, Destinations[d])

CanInsert(st, id) == Len(DbGetMessages(st, id, SourceChat)) < Len(Destinations)

\* The id lists of the batch calls: the consecutive ids of a two-item album.
IdPairs == {<<i, i + 1>> : i \in OriginalIds \ {5}}

DbSpecInit ==
    /\ capacity \in 1..MaxCapacity
    /\ storage = <<>>
    /\ db_last = NoCall
    /\ table = <<>>

Call(op, ids, result, before, after) ==
    [op |-> op, ids |-> ids, result |-> result,
     evicted |-> Cardinality(KeysOf(before) \ KeysOf(after))]

DbOpInsert(id) ==
    /\ CanInsert(storage, id)
    /\ storage' = DbInsert(storage, capacity, NextRecord(storage, id))
    /\ db_last' = Call("insert", <<id>>, <<>>, storage, storage')
    /\ UNCHANGED <<capacity, otherVars, procVars>>

DbOpInsertBatch(ids) ==
    /\ \A i \in 1..Len(ids) : CanInsert(storage, ids[i])
    /\ storage' = DbInsertBatch(storage, capacity,
                                [i \in 1..Len(ids) |-> NextRecord(storage, ids[i])])
    /\ db_last' = Call("insert_batch", <<>>, <<>>, storage, storage')
    /\ UNCHANGED <<capacity, otherVars, procVars>>

DbOpGet(id) ==
    /\ storage' = DbTouchOnGet(storage, id, SourceChat)
    /\ db_last' = Call("get_messages", <<id>>,
                       DbGetMessages(storage, id, SourceChat), storage, storage')
    /\ UNCHANGED <<capacity, otherVars, procVars>>

DbOpGetBatch(ids) ==
    /\ storage' = storage
    /\ db_last' = Call("get_messages_batch", ids,
                       DbGetMessagesBatch(storage, ids, SourceChat), storage, storage')
    /\ UNCHANGED <<capacity, otherVars, procVars>>

DbOpDelete(id) ==
    /\ storage' = DbDeleteMessages(storage, id, SourceChat)
    /\ db_last' = Call("delete_messages", <<>>, <<>>, storage, storage)
    /\ UNCHANGED <<capacity, otherVars, procVars>>

DbOpDeleteBatch(ids) ==
    /\ storage' = DbDeleteMessagesBatch(storage, ids, SourceChat)
    /\ db_last' = Call("delete_messages_batch", <<>>, <<>>, storage, storage)
    /\ UNCHANGED <<capacity, otherVars, procVars>>

DbNext ==
    \/ \E id \in OriginalIds : DbOpInsert(id)
    \/ \E ids \in IdPairs : DbOpInsertBatch(ids)
    \/ \E id \in OriginalIds : DbOpGet(id)
    \/ \E ids \in IdPairs : DbOpGetBatch(ids)
    \/ \E id \in OriginalIds : DbOpDelete(id)
    \/ \E ids \in IdPairs : DbOpDeleteBatch(ids)

InitDb == DbSpecInit /\ SpliceIdle /\ KwIdle /\ FltIdle /\ ProcIdle /\ UrlIdle /\ PoolIdle
NextDb == DbNext
SpecDb == InitDb /\ [][NextDb]_vars

\* The number of keys an eviction leaves: the largest count that is at most
\* capacity * (1 - freeFactor), but at least 1.
KeepCount(cap) ==
    CHOOSE n \in 1..Max(1, cap) :
        /\ n = 1 \/ n * FreeFactorDen <= cap * (FreeFactorDen - FreeFactorNum)
        /\ (n + 1) * FreeFactorDen > cap * (FreeFactorDen - FreeFactorNum)

\* C8. When inserting a new key makes the key count exceed capacity, the keys
\* are evicted least recently touched first until KeepCount(capacity) are left,
\* and the key just inserted is among them. A lookup is a touch: a key that was
\* looked up by the call just before the insert is the most recently touched
\* of the keys held, so it is kept whenever two keys or more are.
C8_EvictsLeastRecentlyTouched ==
    [][ (/\ db_last' # NoCall
         /\ db_last'.op = "insert"
         /\ BuildMessageKey(db_last'.ids[1], SourceChat) \notin KeysOf(storage)
         /\ Len(storage) + 1 > capacity)
        => LET key == BuildMessageKey(db_last'.ids[1], SourceChat)
           IN /\ Len(storage') = KeepCount(capacity)
              /\ key \in KeysOf(storage')
              /\ (/\ db_last # NoCall
                  /\ db_last.op = "get_messages"
                  /\ BuildMessageKey(db_last.ids[1], SourceChat) \in KeysOf(storage)
                  /\ KeepCount(capacity) >= 2)
                 => BuildMessageKey(db_last.ids[1], SourceChat) \in KeysOf(storage') ]_vars

\* C9. The number of distinct keys stored never exceeds the capacity.
C9_CapacityBound ==
    /\ Cardinality(KeysOf(storage)) <= capacity
    /\ Cardinality(KeysOf(storage)) = Len(storage)

\* A batch insert into a full cache evicted and then filled the cache again.
C9_Witness ==
    /\ db_last # NoCall
    /\ db_last.op = "insert_batch"
    /\ db_last.evicted > 0
    /\ capacity > 1
    /\ Len(storage) = capacity

\* C10. After a lookup of a key that is present, that key is the most recently
\* used one (the last the eviction would remove).
C10_LookupMovesToEnd ==
    (/\ db_last # NoCall
     /\ db_last.op = "get_messages"
     /\ BuildMessageKey(db_last.ids[1], SourceChat) \in KeysOf(storage))
    => storage[Len(storage)].key = BuildMessageKey(db_last.ids[1], SourceChat)

\* C19. Immediately after insert(r), the lookup of r's key returns the records
\* it returned just before the insert followed by r, whether or not the insert
\* evicted other keys.
C19_InsertedIsReturned ==
    [][ (db_last' # NoCall /\ db_last'.op = "insert")
        => LET id == db_last'.ids[1]
           IN DbGetMessages(storage', id, SourceChat)
              = Append(DbGetMessages(storage, id, SourceChat), NextRecord(storage, id)) ]_vars

\* An insert has evicted a key and its record is returned by the lookup, while
\* another key holds a record that was inserted under it after an earlier one.
C19_Witness ==
    /\ db_last # NoCall
    /\ db_last.op = "insert"
    /\ db_last.evicted > 0
    /\ DbGetMessages(storage, db_last.ids[1], SourceChat)
       = <<MirrorMessage(db_last.ids[1], SourceChat, 100 + db_last.ids[1], Destinations[1])>>
    /\ \E k \in 1..Len(storage) : Len(storage[k].value) = 2


(***************************************************************************)
(* Event processor: src/telemirror/mirroring.py, EventProcessor and        *)
(* EventHandlers. One source chat is observed. The messaging client runs   *)
(* the handler of every event as a task of its own; a task gives up the    *)
(* event loop where it awaits a client call, and where it awaits a call of *)
(* the Postgres database (the in-memory database never suspends).          *)
(***************************************************************************)
\* None, for the optional integers (topic ids, reply targets).
None == 0
GENERAL_TOPIC_ID == 1

DirectionConfig(dest, filters, disable_delete, disable_edit, from_topic_id, to_topic_id, mode) ==
    [dest |-> dest, filters |-> filters, disable_delete |-> disable_delete,
     disable_edit |-> disable_edit, from_topic_id |-> from_topic_id,
     to_topic_id |-> to_topic_id, mode |-> mode]

\* self._chat_mapping.get(chat_id, {}).get(mirror_channel).
ConfigsFor(mapping, dest) == SelectSeq(mapping, LAMBDA c : c.dest = dest)

\* An incoming message. is_reply: message.reply_to is set.
EventMessage(id, text, is_reply, reply_to_msg_id, reply_to_top_id, forum_topic, noforwards) ==
    [id |-> id, text |-> text, hdr |-> 0, is_reply |-> is_reply,
     reply_to_msg_id |-> reply_to_msg_id, reply_to_top_id |-> reply_to_top_id,
     forum_topic |-> forum_topic, noforwards |-> noforwards]

\* any(f.restricted_content_allowed for f in self._filters), or the filter's own.
RestrictedContentAllowed(filters) ==
    \E i \in 1..Len(filters) : filters[i] = "RestrictSavingBypass"

\* The topic taken from reply_to_msg_id alone.
IncomingTopicIdOfReplied(m) ==
    IF m.is_reply /\ m.forum_topic THEN m.reply_to_msg_id ELSE GENERAL_TOPIC_ID

\* incoming_topic_id: the thread root for a message of a forum topic, the
\* general topic otherwise.
IncomingTopicId(m) ==
    IF m.is_reply /\ m.forum_topic
    THEN (IF m.reply_to_top_id # None THEN m.reply_to_top_id ELSE m.reply_to_msg_id)
    ELSE GENERAL_TOPIC_ID

\* The two continue statements of the topic check.
TopicMismatch(config, m) ==
    /\ config.from_topic_id # None
    /\ \/ (~m.is_reply /\ config.from_topic_id # GENERAL_TOPIC_ID)
       \/ config.from_topic_id # IncomingTopicId(m)

\* The restricted-content check without its test of the mode.
RestrictedRefusedUnlessAllowed(config, m) ==
    m.noforwards /\ ~RestrictedContentAllowed(config.filters)

\* The continue of the restricted-content check.
RestrictedRefused(config, m) ==
    m.noforwards /\ (~RestrictedContentAllowed(config.filters) \/ config.mode = "forward")

\* MessageFilter._process_album from item i on.
RECURSIVE ProcessAlbumLoop(_, _, _, _)
ProcessAlbumLoop(kind, album, event_type, i) ==
    IF i > Len(album) THEN [action |-> "CONTINUE", entity |-> album]
    ELSE LET r == FilterProcessMessage(kind, album[i], event_type)
             album2 == [album EXCEPT ![i] = r.entity]
             c == MatchCase(r.action)
         IN IF Raised(r) THEN [action |-> "raise", entity |-> album2]
            ELSE IF c = "continue" THEN ProcessAlbumLoop(kind, album2, event_type, i + 1)
            ELSE [action |-> c, entity |-> album2]

\* f.process(album, event_type) of one filter. EmptyMessageFilter and
\* SkipAllFilter override process and return the entity as it came.
FilterProcessAlbum(kind, album, event_type) ==
    IF kind \in {"Empty", "SkipAll"}
    THEN [action |-> FilterProcessMessage(kind, album[1], event_type).action,
          entity |-> album]
    ELSE IF kind = "ForwardFormat"
    THEN LET S == {i \in 1..Len(album) : album[i].text # ""}
             idx == IF S = {} THEN 1 ELSE CHOOSE i \in S : \A j \in S : i <= j
             r == FilterProcessMessage(kind, album[idx], event_type)
         IN [action |-> r.action, entity |-> [album EXCEPT ![idx] = r.entity]]
    ELSE ProcessAlbumLoop(kind, album, event_type, 1)

\* CompositeMessageFilter.process on an album, from child i on.
RECURSIVE CompositeAlbumLoop(_, _, _, _)
CompositeAlbumLoop(filters, album, event_type, i) ==
    IF i > Len(filters) THEN [action |-> "CONTINUE", entity |-> album]
    ELSE LET r == FilterProcessAlbum(filters[i], album, event_type)
             c == MatchCase(r.action)
         IN IF Raised(r) THEN r
            ELSE IF c = "continue"
            THEN CompositeAlbumLoop(filters, r.entity, event_type, i + 1)
            ELSE [action |-> c, entity |-> r.entity]

\* config.filters.process: the filter itself when one is configured, a
\* CompositeMessageFilter over them otherwise.
ConfigFiltersProcess(filters, entity, event_type, is_album) ==
    IF Len(filters) = 1
    THEN (IF is_album THEN FilterProcessAlbum(filters[1], entity, event_type)
          ELSE FilterProcessMessage(filters[1], entity, event_type))
    ELSE IF is_album THEN CompositeAlbumLoop(filters, entity, event_type, 1)
    ELSE LET r == CompositeProcess(filters, entity, event_type)
         IN [action |-> r.action, entity |-> r.entity]

\* The test of the handlers with only its legacy half.
IsDiscardedLegacyOnly(action) == action = "False"

\* filter_action is FilterAction.DISCARD or filter_action is False.
IsDiscarded(action) == action = "DISCARD" \/ action = "False"

\* The reply target taken from the last record found, whatever its channel.
ReplyToGetAnyChannel(found, dest) ==
    IF found = <<>> THEN None ELSE found[Len(found)].mirror_id

\* reply_to_messages.get(outgoing_chat), reply_to_messages being built from the
\* records found: a later record of a channel replaces an earlier one.
ReplyToGet(found, dest) ==
    LET S == {i \in 1..Len(found) : found[i].mirror_channel = dest}
    IN IF S = {} THEN None
       ELSE found[CHOOSE i \in S : \A j \in S : j <= i].mirror_id


(***************************************************************************)
(* The persistent backend: PostgresDatabase of src/telemirror/storage.py.  *)
(* The table binding_id is kept as the in-memory index is, the rows of one *)
(* (original_channel, original_id) together; nothing is ever evicted.      *)
(***************************************************************************)
PgInsert(st, entity) ==
    LET key == BuildMessageKey(entity.original_id, entity.original_channel)
    IN AppendUnder(OdSetItem(st, key, DictGet(st, key, <<>>)), key, entity)

RECURSIVE PgInsertBatch(_, _)
PgInsertBatch(st, es) ==
    IF es = <<>> THEN st ELSE PgInsertBatch(PgInsert(st, Head(es)), Tail(es))

\* SELECT ... WHERE original_id = ANY(ids): the rows in table order.
PgGetMessagesBatch(st, original_ids, original_channel) ==
    LET keys == {BuildMessageKey(original_ids[i], original_channel) :
                    i \in 1..Len(original_ids)}
        hit == SelectSeq(st, LAMBDA en : en.key \in keys)
    IN Concat([i \in 1..Len(hit) |-> hit[i].value])

\* One Database call, op = [name, arg], on either backend: the index
\* afterwards and the value returned.
DbApply(be, st, cap, op) ==
    CASE op.name = "get_messages" ->
            [storage |-> IF be = "memory" THEN DbTouchOnGet(st, op.arg, SourceChat) ELSE st,
             result |-> DbGetMessages(st, op.arg, SourceChat)]
      [] op.name = "get_messages_batch" ->
            [storage |-> st,
             result |-> IF be = "memory" THEN DbGetMessagesBatch(st, op.arg, SourceChat)
                        ELSE PgGetMessagesBatch(st, op.arg, SourceChat)]
      [] op.name = "insert" ->
            [storage |-> IF be = "memory" THEN DbInsert(st, cap, op.arg)
                         ELSE PgInsert(st, op.arg),
             result |-> <<>>]
      [] op.name = "insert_batch" ->
            [storage |-> IF be = "memory" THEN DbInsertBatch(st, cap, op.arg)
                         ELSE PgInsertBatch(st, op.arg),
             result |-> <<>>]
      [] op.name = "delete_messages" ->
            [storage |-> DbDeleteMessages(st, op.arg, SourceChat), result |-> <<>>]
      [] op.name = "delete_messages_batch" ->
            [storage |-> DbDeleteMessagesBatch(st, op.arg, SourceChat),
             result |-> <<>>]

(***************************************************************************)
(* A handler task. log lists the calls the handler has made on the Mirror  *)
(* Index and on the messaging client, in order, each with its outcome.     *)
(***************************************************************************)
NoOp == [name |-> "none", arg |-> <<>>]

NewTask(kind, msgs, ids) ==
    [kind |-> kind, msgs |-> msgs, received |-> msgs, ids |-> ids,
     pc |-> "start", dir |-> 0, reply_to_messages |-> <<>>, found |-> <<>>, work |-> <<>>,
     filtered |-> <<>>, pending |-> NoOp, db_result |-> <<>>,
     log |-> <<>>, aborted |-> FALSE]

\* What is kept of a handler that has finished, once the system has moved on:
\* the log of a task is an observation of the run, kept while the task runs and
\* in the state its last step leads to.
Retired == [NewTask("retired", <<>>, <<>>) EXCEPT !.pc = "done"]

Retire(ts) == [k \in 1..Len(ts) |-> IF ts[k].pc = "done" THEN Retired ELSE ts[k]]

LogEntry(name, dir, dest, arg) ==
    [name |-> name, dir |-> dir, dest |-> dest, arg |-> arg, outcome |-> "pending"]

SetOutcome(log, outcome) == [log EXCEPT ![Len(log)].outcome = outcome]

\* The (record, config) pairs the two loops of edit_message go through.
RECURSIVE EditWork(_, _)
EditWork(mapping, found) ==
    IF found = <<>> THEN <<>>
    ELSE LET cs == ConfigsFor(mapping, Head(found).mirror_channel)
         IN [k \in 1..Len(cs) |-> [rec |-> Head(found), config |-> cs[k]]]
            \o EditWork(mapping, Tail(found))

\* deleting_per_channel.setdefault(channel, []).append(mirror_id), n times.
AppendPerChannel(acc, channel, mirror_id, n) ==
    LET ids == [k \in 1..n |-> mirror_id]
        S == {i \in 1..Len(acc) : acc[i].channel = channel}
    IN IF n = 0 THEN acc
       ELSE IF S = {} THEN Append(acc, [channel |-> channel, ids |-> ids])
       ELSE LET i == CHOOSE i \in S : TRUE
            IN [acc EXCEPT ![i].ids = @ \o ids]

\* deleting_per_channel of delete_message: per destination, in the order of
\* first appearance, the mirror ids, one for each delete-enabled config.
RECURSIVE DeletingPerChannel(_, _, _)
DeletingPerChannel(mapping, found, acc) ==
    IF found = <<>> THEN acc
    ELSE LET rec == Head(found)
             cs == ConfigsFor(mapping, rec.mirror_channel)
             n == Len(SelectSeq(cs, LAMBDA c : ~c.disable_delete))
         IN DeletingPerChannel(mapping, Tail(found),
                               AppendPerChannel(acc, rec.mirror_channel, rec.mirror_id, n))

\* message_ids as delete_message passes it to delete_messages_batch: the loop
\* over deleting_per_channel rebinds the name to each channel's mirror ids.
DeleteBatchIds(t) ==
    IF t.work = <<>> THEN t.ids ELSE t.work[Len(t.work)].ids

\* The arguments of a send that names the destination topic in every case.
SendArgsTopicAlways(config, reply_to_messages) ==
    [reply_to |-> IF config.mode = "copy" THEN ReplyToGet(reply_to_messages, config.dest)
                  ELSE None,
     reply_to_topic_id |-> config.to_topic_id]

\* The arguments of the send: [reply_to, reply_to_topic_id].
SendArgs(config, reply_to_messages) ==
    LET reply == ReplyToGet(reply_to_messages, config.dest)
        outgoing_topic_reply == reply # None /\ config.to_topic_id # None
    IN IF config.mode = "copy"
       THEN [reply_to |-> IF outgoing_topic_reply \/ config.to_topic_id = None
                          THEN reply ELSE config.to_topic_id,
             reply_to_topic_id |-> IF outgoing_topic_reply THEN config.to_topic_id
                                   ELSE None]
       ELSE [reply_to |-> None, reply_to_topic_id |-> config.to_topic_id]


\* What the handler does with what the send gave, did it go on to the next
\* direction without writing the record.
AfterSendSkipInsert(outcome) == "next"

\* What the handler does with what the send gave, had it no except clause and
\* no test of the message returned.
AfterSendAlwaysInsert(outcome) == "insert"

\* except Exception: continue, then if outgoing_message: insert.
AfterSend(outcome) == IF outcome = "ok" THEN "insert" ELSE "next"

\* The try of an edit or delete call with only its MessageNotModifiedError
\* clause: any other exception leaves the loop.
AfterRemoteOnlyNotModified(outcome) == IF outcome = "raise" THEN "raise" ELSE "next"

\* The except clauses around client.edit_message and client.delete_messages:
\* the failure is logged and the loop goes on.
AfterRemote(outcome) == "next"

SendName(config, is_album) ==
    IF config.mode = "forward" THEN "forward_messages"
    ELSE IF is_album THEN "send_file" ELSE "send_message"

Suspend(t, st, entry) ==
    [t |-> [t EXCEPT !.pc = "await_client", !.log = Append(@, entry)], st |-> st]

NextDirection(t) == [t EXCEPT !.pc = "loop", !.dir = @ + 1]

(***************************************************************************)
(* Run(t, st): the handler of task t runs on the index st from where it is *)
(* to its next suspension or to its end; DbCall is an awaited Database     *)
(* call, which returns at once on the in-memory backend.                   *)
(***************************************************************************)
\* The test of outgoing_chats left out: the handler goes on with no target.
NoTargetChatsUntested(mapping) == FALSE

\* not outgoing_chats: the source chat has no entry in the chat mapping.
NoTargetChats(mapping) == mapping = <<>>

RECURSIVE Run(_, _)
RECURSIVE DbCall(_, _, _)

\* A wrapper that runs the handler again when its body raised.
HandleExceptionsRestart(t, st) == [t |-> [t EXCEPT !.pc = "start", !.dir = 0], st |-> st]

\* An exception caught where the failing call was made: the loop goes on.
HandleExceptionsInLoop(t, st) == Run(NextDirection(t), st)

\* The wrapper of __handle_exceptions: an exception that leaves the handler
\* body is logged, and the handler returns.
HandleExceptions(t, st) == [t |-> [t EXCEPT !.pc = "done", !.aborted = TRUE], st |-> st]

\* A Database call that gives up the event loop on either backend.
DbCallSuspending(t, st, op) ==
    [t |-> [t EXCEPT !.pending = op, !.pc = "await_db",
                     !.log = Append(@, LogEntry(op.name, t.dir, None, op.arg))],
     st |-> st]

DbCall(t, st, op) ==
    LET t1 == [t EXCEPT !.pending = op,
                        !.log = Append(@, LogEntry(op.name, t.dir, None, op.arg))]
    IN IF backend = "memory"
       THEN LET r == DbApply("memory", st, capacity, op)
            IN Run([t1 EXCEPT !.pc = "db_done", !.db_result = r.result,
                              !.log = SetOutcome(@, "ok")], r.storage)
       ELSE [t |-> [t1 EXCEPT !.pc = "await_db"], st |-> st]

\* A copy that keeps the entities and the media of the message it was made
\* from, by reference.
CopyMessageByReference(message) == [entity |-> message, own |-> FALSE]

\* CopyEventMessage.copy_message: a new EventMessage built field by field,
\* entities and media deep-copied. own tells that the formatting entities and
\* the media of the copy are objects of its own.
CopyMessage(message) == [entity |-> message, own |-> TRUE]

\* CopyEventMessage.copy_album.
CopyAlbum(album) == [k \in 1..Len(album) |-> CopyMessage(album[k])]

\* One message of the handler once a chain has run on its copy: a filter
\* assigns message.message and message.media on the copy, and extends
\* message.entities in place (ForwardFormatFilter), which shows in every
\* message that holds the same list.
AfterChain(message, copy, filtered) ==
    IF copy.own THEN message ELSE [message EXCEPT !.hdr = filtered.hdr]

\* config.filters.process on the copies of the handler's message (album).
ChainOnCopies(config, msgs, is_album) ==
    ConfigFiltersProcess(config.filters,
                         IF is_album THEN [k \in 1..Len(msgs) |-> CopyAlbum(msgs)[k].entity]
                         ELSE CopyMessage(msgs[1]).entity,
                         IF is_album THEN "Album" ELSE "NewMessage",
                         is_album)

\* The handler's message (album) after the chain of config has run.
AfterChains(msgs, config, is_album) ==
    [k \in 1..Len(msgs) |->
        AfterChain(msgs[k], CopyMessage(msgs[k]),
                   IF is_album THEN ChainOnCopies(config, msgs, is_album).entity[k]
                   ELSE ChainOnCopies(config, msgs, is_album).entity)]

\* new_message and new_album, one direction of the fan-out. msgs is the
\* handler's message (album), received what the event delivered.
NewLoop(t, st) ==
    IF t.dir > Len(chat_mapping) THEN [t |-> [t EXCEPT !.pc = "done"], st |-> st]
    ELSE LET config == chat_mapping[t.dir]
             is_album == t.kind = "new_album"
             r == ChainOnCopies(config, t.msgs, is_album)
         IN IF TopicMismatch(config, t.msgs[1]) \/ RestrictedRefused(config, t.msgs[1])
            THEN Run(NextDirection(t), st)
            ELSE IF Raised(r) THEN HandleExceptions(t, st)
            ELSE IF IsDiscarded(r.action)
            THEN Run(NextDirection([t EXCEPT !.msgs = AfterChains(@, config, is_album)]), st)
            ELSE Suspend([t EXCEPT !.msgs = AfterChains(@, config, is_album),
                                   !.filtered = r.entity], st,
                         LogEntry(SendName(config, is_album), t.dir, config.dest,
                                  SendArgs(config, t.reply_to_messages)))

\* The test with its first half only: forwarded copies are edited too.
EditSkippedWhenDisabled(config) == config.disable_edit

\* The continue of the config loop of edit_message.
EditSkipped(config) == config.disable_edit \/ config.mode = "forward"

\* edit_message, one config of one record found.
EditLoop(t, st) ==
    IF t.dir > Len(t.work) THEN [t |-> [t EXCEPT !.pc = "done"], st |-> st]
    ELSE LET w == t.work[t.dir]
             r == ConfigFiltersProcess(w.config.filters, t.msgs[1], "MessageEdited", FALSE)
         IN IF ~EditSkipped(w.config) /\ Raised(r) THEN HandleExceptions(t, st)
            ELSE IF EditSkipped(w.config) \/ IsDiscarded(r.action)
            THEN Run(NextDirection(t), st)
            ELSE Suspend([t EXCEPT !.filtered = r.entity], st,
                         LogEntry("edit_message", t.dir, w.rec.mirror_channel,
                                  w.rec.mirror_id))

\* delete_message, one destination of deleting_per_channel, then the index.
DeleteLoop(t, st) ==
    IF t.dir > Len(t.work)
    THEN DbCall(t, st, [name |-> "delete_messages_batch", arg |-> DeleteBatchIds(t)])
    ELSE Suspend(t, st, LogEntry("delete_messages", t.dir, t.work[t.dir].channel,
                                 t.work[t.dir].ids))

\* The handler goes on after a Database call has returned.
AfterDb(t, st) ==
    CASE t.pending.name = "get_messages" /\ t.kind # "edit_message" ->
            Run([t EXCEPT !.reply_to_messages = t.db_result, !.pc = "loop", !.dir = 1], st)
      [] t.pending.name = "get_messages" /\ t.kind = "edit_message" ->
            IF t.db_result = <<>> THEN [t |-> [t EXCEPT !.pc = "done"], st |-> st]
            ELSE Run([t EXCEPT !.found = t.db_result,
                               !.work = EditWork(chat_mapping, t.db_result),
                               !.pc = "loop", !.dir = 1], st)
      [] t.pending.name = "get_messages_batch" ->
            IF t.db_result = <<>> THEN [t |-> [t EXCEPT !.pc = "done"], st |-> st]
            ELSE Run([t EXCEPT !.found = t.db_result,
                               !.work = DeletingPerChannel(chat_mapping, t.db_result, <<>>),
                               !.pc = "loop", !.dir = 1], st)
      [] t.pending.name \in {"insert", "insert_batch"} -> Run(NextDirection(t), st)
      [] t.pending.name = "delete_messages_batch" ->
            [t |-> [t EXCEPT !.pc = "done"], st |-> st]

\* The first lines of a handler, to its first await.
Begin(t, st) ==
    CASE t.kind \in {"new_message", "new_album"} ->
            IF NoTargetChats(chat_mapping) THEN [t |-> [t EXCEPT !.pc = "done"], st |-> st]
            ELSE IF t.msgs[1].is_reply
            THEN DbCall(t, st, [name |-> "get_messages", arg |-> t.msgs[1].reply_to_msg_id])
            ELSE Run([t EXCEPT !.pc = "loop", !.dir = 1], st)
      [] t.kind = "edit_message" ->
            DbCall(t, st, [name |-> "get_messages", arg |-> t.msgs[1].id])
      [] t.kind = "delete_message" ->
            DbCall(t, st, [name |-> "get_messages_batch", arg |-> t.ids])

Run(t, st) ==
    CASE t.pc = "start" -> Begin(t, st)
      [] t.pc = "db_done" -> AfterDb(t, st)
      [] t.pc = "loop" /\ t.kind \in {"new_message", "new_album"} -> NewLoop(t, st)
      [] t.pc = "loop" /\ t.kind = "edit_message" -> EditLoop(t, st)
      [] t.pc = "loop" /\ t.kind = "delete_message" -> DeleteLoop(t, st)


(***************************************************************************)
(* The configurations and the events the processor is run on.              *)
(***************************************************************************)
\* Fan-out to two destinations, one chain passing and one discarding.
TableFanOut ==
    << DirectionConfig(10, <<"Empty">>, FALSE, FALSE, None, None, "copy"),
       DirectionConfig(20, <<"SkipAll">>, FALSE, FALSE, None, None, "copy") >>

\* A keyword chain with a header, and a forwarding direction into topic 9
\* that forces the send and mirrors no delete.
TableForward ==
    << DirectionConfig(10, <<"SkipWithKeywords", "ForwardFormat">>, FALSE, FALSE,
                       None, None, "copy"),
       DirectionConfig(20, <<"ForceSend", "SkipAll">>, TRUE, FALSE, None, 9, "forward") >>

\* Two directions to the same destination (one from topic 7 only, allowed
\* restricted content, edits disabled; one into topic 9) and a plain one.
TableTopics ==
    << DirectionConfig(10, <<"RestrictSavingBypass">>, FALSE, TRUE, 7, None, "copy"),
       DirectionConfig(10, <<"Empty">>, FALSE, FALSE, None, 9, "copy"),
       DirectionConfig(20, <<"Empty">>, FALSE, FALSE, None, None, "copy") >>

\* A chain that is not declared safe for restricted content, a composite with
\* one child that is, and a forwarding direction whose filter is.
TableRestricted ==
    << DirectionConfig(10, <<"Empty">>, FALSE, FALSE, None, None, "copy"),
       DirectionConfig(20, <<"ForwardFormat", "RestrictSavingBypass">>, FALSE, FALSE,
                       None, None, "copy"),
       DirectionConfig(20, <<"RestrictSavingBypass">>, FALSE, FALSE, None, None, "forward") >>

\* No entry for the source chat.
TableNone == <<>>

RoutingTables == {TableFanOut, TableForward, TableTopics, TableRestricted, TableNone}

\* The id of the next message of each chat; chat 20 holds a message already.
FirstIds == (SourceChat :> 1) @@ (10 :> 1) @@ (20 :> 2)

NewMessageShapes(id) ==
    { EventMessage(id, "plain", FALSE, None, None, FALSE, FALSE),
      EventMessage(id, "kw", FALSE, None, None, FALSE, FALSE),
      EventMessage(id, "plain", TRUE, 7, None, TRUE, FALSE),
      EventMessage(id, "plain", FALSE, None, None, FALSE, TRUE) }
    \cup (IF id > 1 THEN {EventMessage(id, "plain", TRUE, 1, None, FALSE, FALSE)} ELSE {})

AlbumShape(id) ==
    << EventMessage(id, "", FALSE, None, None, FALSE, FALSE),
       EventMessage(id + 1, "plain", FALSE, None, None, FALSE, FALSE) >>

\* The same album from a chat with no-forward protection.
RestrictedAlbumShape(id) ==
    [k \in 1..Len(AlbumShape(id)) |-> [AlbumShape(id)[k] EXCEPT !.noforwards = TRUE]]

ClientOutcomes(kind) ==
    CASE kind \in {"new_message", "new_album"} -> {"ok", "none", "raise"}
      [] kind = "edit_message" -> {"ok", "not_modified", "raise"}
      [] kind = "delete_message" -> {"ok", "raise"}

ProcInit ==
    /\ backend \in {"memory", "postgres"}
    /\ chat_mapping \in RoutingTables
    /\ tasks = <<>>
    /\ next_id = FirstIds
    /\ failures = 0
    /\ mirrored = {}
    /\ capacity = MaxCapacity
    /\ storage = <<>>
    /\ db_last = NoCall
    /\ table = <<>>

\* The handlers followed at a time: the client starts a task for every event
\* it receives, the model follows two of them at once.
HandlerSlots == {"first", "second"}

InFlight == {k \in 1..Len(tasks) : tasks[k].pc # "done"}

\* The client dispatches an event: the handler becomes a task of its own.
Dispatch(task) ==
    /\ Len(tasks) < MaxEvents
    /\ Cardinality(InFlight) < Cardinality(HandlerSlots)
    /\ tasks' = Append(Retire(tasks), task)

\* on_new_message.
OnNewMessage ==
    \E m \in NewMessageShapes(next_id[SourceChat]) :
        /\ Dispatch(NewTask("new_message", <<m>>, <<>>))
        /\ next_id' = [next_id EXCEPT ![SourceChat] = @ + 1]
        /\ UNCHANGED <<backend, chat_mapping, failures, mirrored, dbVars, otherVars>>

\* on_album.
OnAlbum ==
    \E album \in {AlbumShape(next_id[SourceChat]), RestrictedAlbumShape(next_id[SourceChat])} :
        /\ Dispatch(NewTask("new_album", album, <<>>))
        /\ next_id' = [next_id EXCEPT ![SourceChat] = @ + Len(album)]
        /\ UNCHANGED <<backend, chat_mapping, failures, mirrored, dbVars, otherVars>>

\* on_edit_message, for a message the chat holds.
OnEditMessage ==
    \E id \in 1..(next_id[SourceChat] - 1), text \in {"plain", "kw"} :
        /\ Dispatch(NewTask("edit_message",
                            <<EventMessage(id, text, FALSE, None, None, FALSE, FALSE)>>, <<>>))
        /\ UNCHANGED <<backend, chat_mapping, next_id, failures, mirrored, dbVars, otherVars>>

\* on_deleted_message, for the first message or the first two of the chat.
OnDeletedMessage ==
    \E n \in {1, 2} :
        /\ n < next_id[SourceChat]
        /\ Dispatch(NewTask("delete_message", <<>>, [k \in 1..n |-> k]))
        /\ UNCHANGED <<backend, chat_mapping, next_id, failures, mirrored, dbVars, otherVars>>

\* The event loop runs a new task to its first suspension; tasks start in the
\* order they were created in.
Start ==
    \E i \in 1..Len(tasks) :
        /\ tasks[i].pc = "start"
        /\ \A k \in 1..(i - 1) : tasks[k].pc # "start"
        /\ LET r == Run(tasks[i], storage)
           IN /\ tasks' = [Retire(tasks) EXCEPT ![i] = r.t]
              /\ storage' = r.st
        /\ UNCHANGED <<backend, chat_mapping, next_id, failures, mirrored, capacity, db_last, otherVars>>

\* The record of the first message returned only, as for a single message.
NewRecordsFirstOnly(filtered, outgoing, dest) ==
    <<MirrorMessage(filtered[1].id, SourceChat, outgoing[1], dest)>>

\* The records with the id of the first item as the original id of every item.
NewRecordsOfFirstItem(filtered, outgoing, dest) ==
    [k \in 1..Len(outgoing) |-> MirrorMessage(filtered[1].id, SourceChat, outgoing[k], dest)]

\* The MirrorMessage objects the handler builds from the messages it sent
\* (filtered_message.id, or idxs[message_index]) and the ids the client returned.
NewRecords(filtered, outgoing, dest) ==
    [k \in 1..Len(outgoing) |-> MirrorMessage(filtered[k].id, SourceChat, outgoing[k], dest)]

\* A message the client has sent: the original it copies, its chat and id, and
\* the direction and handler that sent it.
Mirrored(rec, dir, kind) == [rec |-> rec, dir |-> dir, kind |-> kind]

Failed(outcome) == outcome \in {"none", "raise", "not_modified"}

\* The client call a handler awaits returns or raises, and the handler runs on.
ClientReturns ==
    \E i \in 1..Len(tasks) :
      /\ tasks[i].pc = "await_client"
      /\ \E outcome \in ClientOutcomes(tasks[i].kind) :
          LET t == [tasks[i] EXCEPT !.log = SetOutcome(@, outcome)]
              dest == t.log[Len(t.log)].dest
              sent == IF t.kind = "new_album" THEN t.filtered ELSE <<t.filtered>>
              outgoing == [k \in 1..Len(sent) |-> next_id[dest] + k - 1]
              recs == NewRecords(sent, outgoing, dest)
              is_send == t.kind \in {"new_message", "new_album"}
              r == IF is_send /\ AfterSend(outcome) = "insert"
                   THEN DbCall(t, storage,
                               IF t.kind = "new_album"
                               THEN [name |-> "insert_batch", arg |-> recs]
                               ELSE [name |-> "insert", arg |-> recs[1]])
                   ELSE IF is_send \/ AfterRemote(outcome) = "next"
                   THEN Run(NextDirection(t), storage)
                   ELSE HandleExceptions(t, storage)
          IN /\ Failed(outcome) => failures < MaxFailures
             /\ failures' = IF Failed(outcome) THEN failures + 1 ELSE failures
             /\ next_id' = IF is_send /\ outcome # "raise"
                           THEN [next_id EXCEPT ![dest] = @ + Len(sent)] ELSE next_id
             /\ mirrored' = IF is_send /\ outcome = "ok"
                            THEN mirrored \cup
                                 {Mirrored(MirrorMessage(t.msgs[k].id, SourceChat,
                                                         outgoing[k], dest),
                                           t.dir, t.kind) : k \in 1..Len(outgoing)}
                            ELSE mirrored
             /\ tasks' = [Retire(tasks) EXCEPT ![i] = r.t]
             /\ storage' = r.st
      /\ UNCHANGED <<backend, chat_mapping, capacity, db_last, otherVars>>

\* The Postgres call a handler awaits returns, or raises: the exception leaves
\* the handler body and __handle_exceptions logs it.
DbReturns ==
    \E i \in 1..Len(tasks) :
      /\ tasks[i].pc = "await_db"
      /\ \E outcome \in {"ok", "raise"} :
          LET t == [tasks[i] EXCEPT !.log = SetOutcome(@, outcome)]
              a == DbApply("postgres", storage, capacity, t.pending)
              r == IF outcome = "ok"
                   THEN Run([t EXCEPT !.pc = "db_done", !.db_result = a.result], a.storage)
                   ELSE HandleExceptions(t, storage)
          IN /\ outcome = "raise" => failures < MaxFailures
             /\ failures' = IF outcome = "raise" THEN failures + 1 ELSE failures
             /\ tasks' = [Retire(tasks) EXCEPT ![i] = r.t]
             /\ storage' = r.st
      /\ UNCHANGED <<backend, chat_mapping, next_id, mirrored, capacity, db_last, otherVars>>

Init == ProcInit /\ SpliceIdle /\ KwIdle /\ FltIdle /\ UrlIdle /\ PoolIdle

Next ==
    \/ OnNewMessage
    \/ OnAlbum
    \/ OnEditMessage
    \/ OnDeletedMessage
    \/ Start
    \/ ClientReturns
    \/ DbReturns

Spec == Init /\ [][Next]_vars

\* A fan-out whose second direction has a user filter that raises on the
\* keyword, between two directions that pass everything.
TableRaising ==
    << DirectionConfig(10, <<"Empty">>, FALSE, FALSE, None, None, "copy"),
       DirectionConfig(20, <<"ForwardFormat", "RaiseOnKeyword">>, FALSE, FALSE,
                       None, None, "copy"),
       DirectionConfig(20, <<"Empty">>, FALSE, FALSE, None, None, "copy") >>

RaiseInit ==
    /\ backend \in {"memory", "postgres"}
    /\ chat_mapping = TableRaising
    /\ tasks = <<>>
    /\ next_id = FirstIds
    /\ failures = 0
    /\ mirrored = {}
    /\ capacity = MaxCapacity
    /\ storage = <<>>
    /\ db_last = NoCall
    /\ table = <<>>

InitRaise == RaiseInit /\ SpliceIdle /\ KwIdle /\ FltIdle /\ UrlIdle /\ PoolIdle

SpecRaise == InitRaise /\ [][Next]_vars


(***************************************************************************)
(* Properties of the event processor.                                      *)
(***************************************************************************)
SendNames == {"send_message", "forward_messages", "send_file"}
InsertNames == {"insert", "insert_batch"}

SendsOf(t) == SelectSeq(t.log, LAMBDA e : e.name \in SendNames)

RecordWritesOf(t) == SelectSeq(t.log, LAMBDA e : e.name \in InsertNames /\ e.outcome = "ok")

\* The directions of the fan-out that are not skipped (topic mismatch,
\* restricted content) and whose chain answers CONTINUE or FORCE_SEND.
SendingDirections(t) ==
    {d \in 1..Len(chat_mapping) :
        /\ ~TopicMismatch(chat_mapping[d], t.msgs[1])
        /\ ~RestrictedRefused(chat_mapping[d], t.msgs[1])
        /\ ConfigFiltersProcess(chat_mapping[d].filters,
                                IF t.kind = "new_album" THEN t.msgs ELSE t.msgs[1],
                                IF t.kind = "new_album" THEN "Album" ELSE "NewMessage",
                                t.kind = "new_album").action \in {"CONTINUE", "FORCE_SEND"}}

\* The first sending direction from k on, 0 if there is none.
NextSending(t, k) ==
    LET S == {d \in SendingDirections(t) : d >= k}
    IN IF S = {} THEN 0 ELSE CHOOSE d \in S : \A e \in S : d <= e

\* C1. Once a delete event for ids of the source chat has been handled, the
\* Mirror Index holds no record of any of those ids, whether or not the remote
\* delete calls succeeded (handlers in which no Mirror Index call raised).
C1_DeleteRemovesRecords ==
    [][ \A i \in 1..Len(tasks) :
          (/\ tasks[i].pc # "done"
           /\ tasks'[i].kind = "delete_message"
           /\ tasks'[i].pc = "done"
           /\ ~tasks'[i].aborted)
          => \A k \in 1..Len(tasks'[i].ids) :
                BuildMessageKey(tasks'[i].ids[k], SourceChat) \notin KeysOf(storage') ]_vars

C3_SendFailureIsolated ==
    [][ \A i \in 1..Len(tasks) :
          (/\ tasks[i].kind \in {"new_message", "new_album"}
           /\ tasks[i].pc = "await_client"
           /\ tasks'[i].log[Len(tasks[i].log)].outcome = "raise")
          => LET t == tasks'[i]
                 d == tasks[i].dir
                 nxt == NextSending(tasks[i], d + 1)
             IN /\ \A k \in 1..Len(t.log) : t.log[k].name \in InsertNames => t.log[k].dir # d
                /\ storage' = storage
                /\ ~t.aborted
                /\ IF nxt = 0 THEN t.pc = "done"
                   ELSE /\ t.pc = "await_client"
                        /\ t.dir = nxt
                        /\ t.log[Len(t.log)].name \in SendNames
                        /\ t.log[Len(t.log)].dest = chat_mapping[nxt].dest ]_vars

\* An album whose send to one destination raised and whose send to a later
\* destination was made, succeeded and was recorded.
C3_Witness ==
    \E i \in 1..Len(tasks) :
        /\ tasks[i].kind = "new_album"
        /\ tasks[i].pc = "done"
        /\ LET sends == SendsOf(tasks[i])
           IN \E a, b \in 1..Len(sends) :
                /\ a < b
                /\ sends[a].outcome = "raise"
                /\ sends[b].outcome = "ok"
                /\ sends[a].dest # sends[b].dest
                /\ \E k \in 1..Len(tasks[i].log) :
                      /\ tasks[i].log[k].name = "insert_batch"
                      /\ tasks[i].log[k].dir = sends[b].dir

\* C4. The handler of a later-delivered event makes no Mirror Index access and
\* no client call before the handler of every earlier-delivered event of the
\* chat has finished.
C4_HandlersNeverInterleave ==
    \A a, b \in 1..Len(tasks) :
        (a < b /\ tasks[a].pc # "done") => tasks[b].log = <<>>

(***************************************************************************)
(* config.filters.process on an album or on a single message: the filter   *)
(* itself when one is configured, the CompositeMessageFilter over the      *)
(* chain otherwise. An album is a sequence of messages.                    *)
(***************************************************************************)
Albums == UNION {[1..n -> {Message(k, t) : k \in {1}, t \in Texts}] : n \in 1..3}

AlbInit ==
    /\ chain \in SeqsUpTo(FilterKinds, 2)
    /\ flt_input \in Albums
    /\ flt_result = NoCall

\* What process returned, with what it was given.
Processed(r, input, is_album) ==
    [action |-> r.action, entity |-> r.entity, input |-> input, is_album |-> is_album]

\* config.filters.process(album, events.Album), start to finish.
AlbProcess ==
    /\ flt_result = NoCall
    /\ flt_result' = Processed(ConfigFiltersProcess(chain, flt_input, "Album", TRUE),
                               flt_input, TRUE)
    /\ UNCHANGED <<chain, flt_input, spliceVars, kwVars, pgVars, urlVars, poolVars, dbVars, procVars>>

\* config.filters.process(message, events.NewMessage) on the first item alone.
ItemProcess ==
    /\ flt_result = NoCall
    /\ flt_result' = Processed(ConfigFiltersProcess(chain, flt_input[1], "NewMessage", FALSE),
                               flt_input[1], FALSE)
    /\ UNCHANGED <<chain, flt_input, spliceVars, kwVars, pgVars, urlVars, poolVars, dbVars, procVars>>

InitAlbum == AlbInit /\ SpliceIdle /\ KwIdle /\ DbIdle /\ ProcIdle /\ UrlIdle /\ PoolIdle
NextAlbum == AlbProcess \/ ItemProcess
SpecAlbum == InitAlbum /\ [][NextAlbum]_vars

\* The first item with non-empty text, the first item if all are empty.
Representative(album) ==
    LET S == {i \in 1..Len(album) : album[i].text # ""}
    IN IF S = {} THEN 1 ELSE CHOOSE i \in S : \A j \in S : i <= j

\* C11. For every filter (returning a FilterAction), processing an album runs
\* the single-message step on the representative item only: every other item is
\* left as it was, and the album's action is that item's action.
C11_AlbumRepresentativeOnly ==
    (/\ flt_result # NoCall
     /\ flt_result.is_album
     /\ Len(chain) = 1
     /\ ReturnsFilterAction(chain[1]))
    => LET idx == Representative(flt_input)
           r == FilterProcessMessage(chain[1], flt_input[idx], "Album")
       IN /\ flt_result.action = r.action
          /\ flt_result.entity = [flt_input EXCEPT ![idx] = r.entity]

\* C17. An empty filter chain (EmptyMessageFilter, a CompositeMessageFilter
\* with no children, or one whose children are all EmptyMessageFilter) answers
\* CONTINUE for any message or album and returns it unchanged.
C17_EmptyChainIsIdentity ==
    (flt_result # NoCall /\ \A k \in 1..Len(chain) : chain[k] = "Empty")
    => /\ flt_result.action = "CONTINUE"
       /\ flt_result.entity = flt_result.input

\* A composite of two pass-through filters has returned a three-item album,
\* keyword text included, as it came.
C17_Witness ==
    /\ flt_result # NoCall
    /\ chain = <<"Empty", "Empty">>
    /\ flt_result.is_album
    /\ Len(flt_result.input) = 3
    /\ flt_result.input[2].text = "kw"
    /\ flt_result.action = "CONTINUE"
    /\ flt_result.entity = flt_result.input


(***************************************************************************)
(* Further properties of the event processor.                              *)
(***************************************************************************)
\* A direction that may not carry a message of a protected chat.
NotForRestricted(config) ==
    \/ \A k \in 1..Len(config.filters) : config.filters[k] # "RestrictSavingBypass"
    \/ config.mode = "forward"

\* The chain of direction d lets the entity of task t through.
ChainPasses(t, d) ==
    ConfigFiltersProcess(chat_mapping[d].filters,
                         IF t.kind = "new_album" THEN t.msgs ELSE t.msgs[1],
                         IF t.kind = "new_album" THEN "Album" ELSE "NewMessage",
                         t.kind = "new_album").action \in {"CONTINUE", "FORCE_SEND", "True"}

\* C12. For a message or album of a chat with no-forward protection, no send or
\* forward call is made and no record is written for a direction whose chain is
\* not restricted-content-allowed or whose mode is forward; the handler leaves
\* through an exception only when a Mirror Index call raised, and once it has
\* finished normally every other direction that matches the topic and whose
\* chain passes has had its send.
C12_RestrictedRefused ==
    \A i \in 1..Len(tasks) :
        (tasks[i].kind \in {"new_message", "new_album"} /\ tasks[i].msgs[1].noforwards)
        => LET t == tasks[i]
           IN /\ \A k \in 1..Len(t.log) :
                    t.log[k].name \in (SendNames \cup InsertNames)
                    => ~NotForRestricted(chat_mapping[t.log[k].dir])
              /\ t.aborted => /\ t.log[Len(t.log)].outcome = "raise"
                              /\ t.log[Len(t.log)].name \notin SendNames
              /\ (t.pc = "done" /\ ~t.aborted)
                 => \A d \in 1..Len(chat_mapping) :
                        (/\ ~NotForRestricted(chat_mapping[d])
                         /\ ~TopicMismatch(chat_mapping[d], t.msgs[1])
                         /\ ChainPasses(t, d))
                        => \E k \in 1..Len(t.log) :
                              t.log[k].name \in SendNames /\ t.log[k].dir = d

\* A protected message has been handled: refused for the first direction and
\* for the forwarding one, sent and recorded for the allowed composite between.
C12_Witness ==
    /\ chat_mapping = TableRestricted
    /\ \E i \in 1..Len(tasks) :
          /\ tasks[i].kind = "new_message"
          /\ tasks[i].msgs[1].noforwards
          /\ tasks[i].pc = "done"
          /\ ~tasks[i].aborted
          /\ Len(SendsOf(tasks[i])) = 1
          /\ SendsOf(tasks[i])[1].dir = 2
          /\ SendsOf(tasks[i])[1].outcome = "ok"
          /\ Len(RecordWritesOf(tasks[i])) = 1

\* C13. An edit event issues no edit call on a mirrored message that was sent
\* by a direction whose editing is disabled.
C13_NoEditWhereDisabled ==
    \A i \in 1..Len(tasks) :
        tasks[i].kind = "edit_message"
        => \A k \in 1..Len(tasks[i].log) :
              tasks[i].log[k].name = "edit_message"
              => \A c \in mirrored :
                    (/\ c.rec.mirror_channel = tasks[i].log[k].dest
                     /\ c.rec.mirror_id = tasks[i].log[k].arg)
                    => ~chat_mapping[c.dir].disable_edit

\* C14. When a Mirror Index call raises inside a handler, the handler makes no
\* further call for that event (no later direction is attempted, nothing is
\* written) and ends: the exception is logged by the wrapper and does not leave
\* the handler.
C14_IndexFailureDropsEvent ==
    [][ \A i \in 1..Len(tasks) :
          (/\ tasks[i].pc = "await_db"
           /\ tasks'[i].log[Len(tasks[i].log)].outcome = "raise")
          => /\ tasks'[i].pc = "done"
             /\ tasks'[i].aborted
             /\ Len(tasks'[i].log) = Len(tasks[i].log)
             /\ storage' = storage
             /\ mirrored' = mirrored ]_vars

\* A new-message handler has ended on a failed insert while a later direction
\* was still to be sent.
C14_Witness ==
    \E i \in 1..Len(tasks) :
        /\ tasks[i].kind = "new_message"
        /\ tasks[i].pc = "done"
        /\ tasks[i].aborted
        /\ tasks[i].log[Len(tasks[i].log)].name = "insert"
        /\ tasks[i].log[Len(tasks[i].log)].outcome = "raise"
        /\ NextSending(tasks[i], tasks[i].dir + 1) # 0

\* C15. Every record held in the index is the record of a message the client
\* sent and returned: its mirror chat and mirror id are the destination and the
\* id of a successful send of that original message, each send is recorded at
\* most once, and a handler writes a record only right after a successful send
\* of a direction that was neither skipped nor discarded.
C15_RecordsMatchSends ==
    /\ \A e \in 1..Len(storage) :
          LET held == storage[e].value
          IN /\ \A r \in 1..Len(held) :
                   /\ \E c \in mirrored : c.rec = held[r]
                   /\ storage[e].key
                        = BuildMessageKey(held[r].original_id, held[r].original_channel)
             /\ \A r1, r2 \in 1..Len(held) : held[r1] = held[r2] => r1 = r2
    /\ \A i \in 1..Len(tasks) :
          \A k \in 1..Len(tasks[i].log) :
              tasks[i].log[k].name \in InsertNames
              => /\ k > 1
                 /\ tasks[i].log[k - 1].name \in SendNames
                 /\ tasks[i].log[k - 1].outcome = "ok"
                 /\ tasks[i].log[k - 1].dir = tasks[i].log[k].dir
                 /\ tasks[i].log[k].dir \in SendingDirections(tasks[i])

\* An album has been sent to a destination and both its items are recorded,
\* each under its own original id, with consecutive mirror ids.
C15_Witness ==
    \E i \in 1..Len(tasks) :
        /\ tasks[i].kind = "new_album"
        /\ tasks[i].pc = "done"
        /\ LET a == DbGetMessages(storage, tasks[i].msgs[1].id, SourceChat)
               b == DbGetMessages(storage, tasks[i].msgs[2].id, SourceChat)
           IN /\ a # <<>> /\ b # <<>>
              /\ a[1].mirror_channel = b[1].mirror_channel
              /\ b[1].mirror_id = a[1].mirror_id + 1

\* The chain of direction d lets the edited message through.
EditPasses(d, m) ==
    ~IsDiscarded(ConfigFiltersProcess(chat_mapping[d].filters, m, "MessageEdited", FALSE).action)

\* C16. Every message is edited after its new-message event was delivered. Once
\* the edit event for m has been handled (no Mirror Index call having raised),
\* an edit call has been issued for every copy of m that a new-message handler
\* sent through a copy-mode, edit-enabled direction whose chain lets the edit
\* through.
C16_EditReachesEveryCopy ==
    \A i \in 1..Len(tasks) :
        (tasks[i].kind = "edit_message" /\ tasks[i].pc = "done" /\ ~tasks[i].aborted)
        => \A c \in mirrored :
              (/\ c.kind = "new_message"
               /\ c.rec.original_id = tasks[i].msgs[1].id
               /\ chat_mapping[c.dir].mode = "copy"
               /\ ~chat_mapping[c.dir].disable_edit
               /\ EditPasses(c.dir, tasks[i].msgs[1]))
              => \E k \in 1..Len(tasks[i].log) :
                    /\ tasks[i].log[k].name = "edit_message"
                    /\ tasks[i].log[k].dest = c.rec.mirror_channel
                    /\ tasks[i].log[k].arg = c.rec.mirror_id

RemoteNames == {"edit_message", "delete_messages"}

\* The places of t.work, from k on, for which the handler makes a remote call:
\* every destination of a delete, and of an edit the (record, config) pairs
\* that are copy-mode, edit-enabled and let the edit through. The first of
\* them, 0 if there is none.
NextRemote(t, k) ==
    LET S == {d \in k..Len(t.work) :
                 \/ t.kind = "delete_message"
                 \/ /\ ~t.work[d].config.disable_edit
                    /\ t.work[d].config.mode # "forward"
                    /\ ~IsDiscarded(ConfigFiltersProcess(t.work[d].config.filters, t.msgs[1],
                                                         "MessageEdited", FALSE).action)}
    IN IF S = {} THEN 0 ELSE CHOOSE d \in S : \A e \in S : d <= e

\* C20. In an edit or delete event, when the remote call for one destination
\* raises (a "not modified" answer to an edit included), the handler is not
\* left by the exception and goes on: its next call is the remote call of the
\* next destination, and when there is none an edit handler finishes and a
\* delete handler goes on to remove the records from the Mirror Index.
C20_RemoteFailureIsolated ==
    [][ \A i \in 1..Len(tasks) :
          (/\ tasks[i].kind \in {"edit_message", "delete_message"}
           /\ tasks[i].pc = "await_client"
           /\ tasks'[i].log[Len(tasks[i].log)].outcome \in {"raise", "not_modified"})
          => LET t == tasks'[i]
                 nxt == NextRemote(tasks[i], tasks[i].dir + 1)
                 last == t.log[Len(t.log)]
             IN /\ ~t.aborted
                /\ IF nxt # 0
                   THEN /\ t.pc = "await_client"
                        /\ t.dir = nxt
                        /\ Len(t.log) = Len(tasks[i].log) + 1
                        /\ last.name \in RemoteNames
                        /\ last.dest = IF t.kind = "delete_message" THEN t.work[nxt].channel
                                       ELSE t.work[nxt].rec.mirror_channel
                   ELSE IF t.kind = "edit_message" THEN t.pc = "done"
                   ELSE /\ t.pc \in {"done", "await_db"}
                        /\ last.name = "delete_messages_batch" ]_vars

\* An edit event in which the call for one destination was answered "not
\* modified" and the call for the copy in another destination was then made
\* and succeeded.
C20_Witness ==
    \E i \in 1..Len(tasks) :
        /\ tasks[i].kind = "edit_message"
        /\ tasks[i].pc = "done"
        /\ ~tasks[i].aborted
        /\ \E a, b \in 1..Len(tasks[i].log) :
              /\ a < b
              /\ tasks[i].log[a].name = "edit_message"
              /\ tasks[i].log[a].outcome = "not_modified"
              /\ tasks[i].log[b].name = "edit_message"
              /\ tasks[i].log[b].outcome = "ok"
              /\ tasks[i].log[a].dest # tasks[i].log[b].dest

\* C24. When the source chat has no routing entry, the handler of a new
\* message or album returns in its first step, normally, having made no call
\* on the messaging client or the Mirror Index, and the index is as it was.
C24_NoRouteNoEffect ==
    [][ \A i \in 1..Len(tasks) :
          (/\ chat_mapping = TableNone
           /\ tasks[i].kind \in {"new_message", "new_album"}
           /\ tasks[i].pc = "start"
           /\ tasks'[i].pc # "start")
          => /\ tasks'[i].pc = "done"
             /\ ~tasks'[i].aborted
             /\ tasks'[i].log = <<>>
             /\ storage' = storage ]_vars

\* A reply posted in a source chat without routing entry has been handled:
\* not even the lookup of the message replied to was made.
C24_Witness ==
    /\ chat_mapping = TableNone
    /\ \E i \in 1..Len(tasks) :
          /\ tasks[i].kind = "new_message"
          /\ tasks[i].msgs[1].is_reply
          /\ tasks[i].pc = "done"
          /\ ~tasks[i].aborted
          /\ tasks[i].log = <<>>

(***************************************************************************)
(* The topic check of new_message and new_album, run on every shape of     *)
(* reply header against a direction bound to a source topic and one that   *)
(* is not.                                                                 *)
(***************************************************************************)
TopicIds == {GENERAL_TOPIC_ID, 7, 8}

TableTopic(from_topic_id) ==
    << DirectionConfig(10, <<"Empty">>, FALSE, FALSE, from_topic_id, None, "copy"),
       DirectionConfig(20, <<"Empty">>, FALSE, FALSE, None, None, "copy") >>

TopicMessageShapes(id) ==
    {EventMessage(id, "plain", FALSE, None, None, FALSE, FALSE)}
    \cup {EventMessage(id, "plain", TRUE, msg, top, forum, FALSE) :
            msg \in {5, 7}, top \in {None, 7, 8}, forum \in BOOLEAN}

TopicInit ==
    /\ backend \in {"memory", "postgres"}
    /\ chat_mapping \in {TableTopic(ft) : ft \in TopicIds}
    /\ tasks = <<>>
    /\ next_id = FirstIds
    /\ failures = 0
    /\ mirrored = {}
    /\ capacity = MaxCapacity
    /\ storage = <<>>
    /\ db_last = NoCall
    /\ table = <<>>

\* on_new_message, for a message with any reply header.
OnTopicMessage ==
    \E m \in TopicMessageShapes(next_id[SourceChat]) :
        /\ Dispatch(NewTask("new_message", <<m>>, <<>>))
        /\ next_id' = [next_id EXCEPT ![SourceChat] = @ + 1]
        /\ UNCHANGED <<backend, chat_mapping, failures, mirrored, dbVars, otherVars>>

\* on_album, for an album whose first message has any reply header.
OnTopicAlbum ==
    \E m \in TopicMessageShapes(next_id[SourceChat]) :
        /\ Dispatch(NewTask("new_album",
                            <<m, EventMessage(m.id + 1, "", FALSE, None, None, FALSE, FALSE)>>,
                            <<>>))
        /\ next_id' = [next_id EXCEPT ![SourceChat] = @ + 2]
        /\ UNCHANGED <<backend, chat_mapping, failures, mirrored, dbVars, otherVars>>

InitTopic == TopicInit /\ SpliceIdle /\ KwIdle /\ FltIdle /\ UrlIdle /\ PoolIdle

NextTopic ==
    \/ OnTopicMessage
    \/ OnTopicAlbum
    \/ Start
    \/ ClientReturns
    \/ DbReturns

SpecTopic == InitTopic /\ [][NextTopic]_vars

\* The effective topic of a message: the thread root (reply_to_top_id, else
\* reply_to_msg_id) for a message of a forum thread, the general topic 1
\* otherwise.
EffectiveTopic(m) ==
    IF m.is_reply /\ m.forum_topic
    THEN (IF m.reply_to_top_id # None THEN m.reply_to_top_id ELSE m.reply_to_msg_id)
    ELSE 1

\* C25. Once a new message or album has been handled (no Mirror Index call
\* having raised), a direction that is not refused for restricted content and
\* whose chain passes has had its send iff it has no source topic or its
\* source topic is the effective topic of the message.
C25_TopicDecides ==
    \A i \in 1..Len(tasks) :
        (/\ tasks[i].kind \in {"new_message", "new_album"}
         /\ tasks[i].pc = "done"
         /\ ~tasks[i].aborted)
        => \A d \in 1..Len(chat_mapping) :
              (~RestrictedRefused(chat_mapping[d], tasks[i].msgs[1]) /\ ChainPasses(tasks[i], d))
              => ((\E k \in 1..Len(tasks[i].log) :
                      tasks[i].log[k].name \in SendNames /\ tasks[i].log[k].dir = d)
                  <=> (\/ chat_mapping[d].from_topic_id = None
                       \/ chat_mapping[d].from_topic_id = EffectiveTopic(tasks[i].msgs[1])))

\* A reply inside forum topic 7 (thread root 7, replied-to message 5) has been
\* sent through the direction bound to topic 7 and through the unbound one.
C25_Witness ==
    /\ chat_mapping = TableTopic(7)
    /\ \E i \in 1..Len(tasks) :
          /\ tasks[i].kind = "new_message"
          /\ tasks[i].pc = "done"
          /\ ~tasks[i].aborted
          /\ tasks[i].msgs[1].reply_to_msg_id = 5
          /\ tasks[i].msgs[1].reply_to_top_id = 7
          /\ tasks[i].msgs[1].forum_topic
          /\ \A d \in {1, 2} : \E k \in 1..Len(tasks[i].log) :
                tasks[i].log[k].name \in SendNames /\ tasks[i].log[k].dir = d

(***************************************************************************)
(* The two backends side by side: every Database call is made on the       *)
(* in-memory index (storage) and on the persistent table, for the call     *)
(* sequences in which the keys held never outnumber the capacity.          *)
(***************************************************************************)
BkIds == {1, 2, 3}

\* The id lists of the batch lookups and deletes, repeated ids included.
BkIdLists == [1..2 -> BkIds]

BkRecord(id) ==
    LET d == Len(DbGetMessages(table, id, SourceChat)) + 1
    IN MirrorMessage(id, SourceChat, 100 * d + id, Destinations[d])

BkCanInsert(id) == Len(DbGetMessages(table, id, SourceChat)) < Len(Destinations)

BkInit ==
    /\ capacity \in 1..MaxCapacity
    /\ storage = <<>>
    /\ table = <<>>
    /\ db_last = NoCall

\* One call, op = [name, arg], made on both backends.
BkCall(op, ids) ==
    LET m == DbApply("memory", storage, capacity, op)
        pg == DbApply("postgres", table, capacity, op)
    IN /\ Cardinality(KeysOf(pg.storage)) <= capacity
       /\ storage' = m.storage
       /\ table' = pg.storage
       /\ db_last' = [op |-> op.name, ids |-> ids, result |-> m.result,
                      pg_result |-> pg.result]
       /\ UNCHANGED <<capacity, spliceVars, kwVars, fltVars, urlVars, poolVars, procVars>>

BkInsert ==
    \E id \in BkIds :
        /\ BkCanInsert(id)
        /\ BkCall([name |-> "insert", arg |-> BkRecord(id)], <<id>>)

BkInsertBatch ==
    \E ids \in {l \in BkIdLists : l[1] # l[2]} :
        /\ \A k \in 1..Len(ids) : BkCanInsert(ids[k])
        /\ BkCall([name |-> "insert_batch",
                   arg |-> [k \in 1..Len(ids) |-> BkRecord(ids[k])]], ids)

BkGet == \E id \in BkIds : BkCall([name |-> "get_messages", arg |-> id], <<id>>)

BkGetBatch ==
    \E ids \in BkIdLists : BkCall([name |-> "get_messages_batch", arg |-> ids], ids)

BkDelete == \E id \in BkIds : BkCall([name |-> "delete_messages", arg |-> id], <<id>>)

BkDeleteBatch ==
    \E ids \in BkIdLists : BkCall([name |-> "delete_messages_batch", arg |-> ids], ids)

InitBackends == BkInit /\ SpliceIdle /\ KwIdle /\ FltIdle /\ ProcIdle /\ UrlIdle /\ PoolIdle

NextBackends ==
    \/ BkInsert
    \/ BkInsertBatch
    \/ BkGet
    \/ BkGetBatch
    \/ BkDelete
    \/ BkDeleteBatch

SpecBackends == InitBackends /\ [][NextBackends]_vars

\* How many times x occurs in the list l.
Occurrences(l, x) == Cardinality({k \in 1..Len(l) : l[k] = x})

SameMultiset(a, b) ==
    \A x \in {a[k] : k \in 1..Len(a)} \cup {b[k] : k \in 1..Len(b)} :
        Occurrences(a, x) = Occurrences(b, x)

Lookups == {"get_messages", "get_messages_batch"}

\* C18, as stated. Every lookup returns the same multiset of records on the
\* in-memory backend as on the persistent one.
C18_BackendsAgree ==
    (db_last # NoCall /\ db_last.op \in Lookups)
    => SameMultiset(db_last.result, db_last.pg_result)

\* C18, amended. A lookup that names no id twice returns the same multiset of
\* records on the in-memory backend as on the persistent one.
C18_BackendsAgreeOnDistinctIds ==
    (/\ db_last # NoCall
     /\ db_last.op \in Lookups
     /\ \A j, k \in 1..Len(db_last.ids) : db_last.ids[j] = db_last.ids[k] => j = k)
    => SameMultiset(db_last.result, db_last.pg_result)

\* A batch lookup of two ids has returned three records from both backends,
\* the in-memory index holding as many keys as its capacity allows.
C18_Witness ==
    /\ db_last # NoCall
    /\ db_last.op = "get_messages_batch"
    /\ db_last.ids[1] # db_last.ids[2]
    /\ Len(db_last.result) = 3
    /\ Len(db_last.pg_result) = 3
    /\ Len(storage) = capacity

(***************************************************************************)
(* UrlMatcher: src/telemirror/misc/urlmatcher.py. A URL is a sequence of   *)
(* characters; "1" is the digit, "A" the upper-case letter.                *)
(***************************************************************************)
UrlChars == {"a", "A", "1", ":", "/", "@", "?"}

\* None where a URL is expected: no string of characters.
NoUrl == <<"None">>
DIGITS == {"1"}

\* str.rpartition(sep): what is before and after the last sep; all of it is
\* after when there is none.
RPartition(s, sep) ==
    LET P == {i \in 1..(Len(s) - Len(sep) + 1) : SubSeq(s, i, i + Len(sep) - 1) = sep}
    IN IF P = {} THEN [head |-> <<>>, tail |-> s]
       ELSE LET i == CHOOSE i \in P : \A j \in P : j <= i
            IN [head |-> SubSeq(s, 1, i - 1), tail |-> SubSeq(s, i + Len(sep), Len(s))]

\* str.lstrip(chars).
RECURSIVE LStrip(_, _)
LStrip(s, chars) ==
    IF s # <<>> /\ Head(s) \in chars THEN LStrip(Tail(s), chars) ELSE s

\* The longest prefix of s with no character of stops: a group [^stops]*.
RECURSIVE UpTo(_, _)
UpTo(s, stops) ==
    IF s = <<>> \/ Head(s) \in stops THEN <<>> ELSE <<Head(s)>> \o UpTo(Tail(s), stops)

\* _get_url_components: "http://" is put before what follows the last "://",
\* RE matches (it matches every string, with an authority after "//"), and
\* the host is the authority without user information and numeric port.
GetUrlComponents(url) ==
    LET rest == RPartition(url, <<":", "/", "/">>).tail
        authority == UpTo(rest, {"/", "?", "#"})
        after == SubSeq(rest, Len(authority) + 1, Len(rest))
        path == UpTo(after, {"?", "#"})
        hostinfo == RPartition(authority, <<"@">>).tail
        hp == RPartition(hostinfo, <<":">>)
    IN IF LStrip(hp.tail, DIGITS) # <<>>
       THEN [host |-> hostinfo, path |-> path]
       ELSE [host |-> hp.head, path |-> path]

\* path and full_url as match builds them: [path, full_url].
FullUrl(host, path) ==
    IF path = <<>> THEN <<>>
    ELSE Lower(host) \o <<"/">> \o Lower(LStrip(path, {"/"}))

\* match with the lists tested in the other order and the whitelist skipped
\* for a blacklisted URL.
UrlMatchBlacklistWins(blacklist, whitelist, url) ==
    IF url = NoUrl THEN FALSE
    ELSE LET c == GetUrlComponents(url)
             host == Lower(c.host)
             full_url == FullUrl(c.host, c.path)
         IN IF c.host = <<>> THEN FALSE
            ELSE IF blacklist # {} THEN host \in blacklist \/ full_url \in blacklist
            ELSE ~(whitelist # {} /\ (host \in whitelist \/ full_url \in whitelist))

\* UrlMatcher.match.
UrlMatch(blacklist, whitelist, url) ==
    IF url = NoUrl THEN FALSE
    ELSE LET c == GetUrlComponents(url)
             host == Lower(c.host)
             full_url == FullUrl(c.host, c.path)
         IN IF c.host = <<>> THEN FALSE
            ELSE IF blacklist # {} /\ host \notin blacklist /\ full_url \notin blacklist
            THEN FALSE
            ELSE IF whitelist # {} /\ (host \in whitelist \/ full_url \in whitelist)
            THEN FALSE
            ELSE TRUE

MaxUrlLen == 4
Urls == SeqsUpTo(UrlChars, MaxUrlLen) \cup {NoUrl}

\* The blacklists and whitelists: hosts and host+path entries.
UrlLists ==
    { {}, {<<"a">>}, {<<"a", "/", "a">>}, {<<"a">>, <<"a", "a">>} }

UmInit ==
    /\ url_input \in [url : Urls, blacklist : UrlLists, whitelist : UrlLists]
    /\ url_result = NoCall

\* One call of match.
UmMatch ==
    /\ url_result = NoCall
    /\ url_result' = [value |-> UrlMatch(url_input.blacklist, url_input.whitelist,
                                         url_input.url)]
    /\ UNCHANGED <<url_input, spliceVars, kwVars, fltVars, pgVars, poolVars, dbVars, procVars>>

InitUrlMatcher == UmInit /\ SpliceIdle /\ KwIdle /\ FltIdle /\ DbIdle /\ ProcIdle /\ PoolIdle
NextUrlMatcher == UmMatch
SpecUrlMatcher == InitUrlMatcher /\ [][NextUrlMatcher]_vars

\* The host of a URL and the host followed by its path, as the lists name
\* them: in lower case, the path with one leading slash.
HostOf(url) == IF url = NoUrl THEN <<>> ELSE Lower(GetUrlComponents(url).host)

HostAndPathOf(url) ==
    LET path == GetUrlComponents(url).path
    IN IF path = <<>> THEN HostOf(url)
       ELSE HostOf(url) \o <<"/">> \o Lower(LStrip(path, {"/"}))

RECURSIVE AddSurrogate(_)
AddSurrogate(text) ==
    IF text = <<>> THEN <<>>
    ELSE (IF Head(text) = "U+1F600" THEN <<"D83D", "DE00">> ELSE <<Head(text)>>)
         \o AddSurrogate(Tail(text))

\* utils.del_surrogate: a surrogate pair becomes one character again.
RECURSIVE DelSurrogate(_)
DelSurrogate(text) ==
    IF text = <<>> THEN <<>>
    ELSE IF Len(text) >= 2 /\ text[1] = "D83D" /\ text[2] = "DE00"
    THEN <<"U+1F600">> \o DelSurrogate(SubSeq(text, 3, Len(text)))
    ELSE <<Head(text)>> \o DelSurrogate(Tail(text))

Min(a, b) == IF a <= b THEN a ELSE b

\* A bound of a Python slice: negative bounds count from the end, and every
\* bound is clamped to the string.
SliceBound(n, i) == IF i < 0 THEN Max(0, n + i) ELSE Min(i, n)

\* s[a:b].
PySlice(s, a, b) == SubSeq(s, SliceBound(Len(s), a) + 1, SliceBound(Len(s), b))

UrlEntity(kind, offset, length) == [kind |-> kind, offset |-> offset, length |-> length]

\* The maximal runs of characters other than " " in text, as [start, end).
Tokens(text) ==
    {sp \in [start : 0..Len(text), end : 0..Len(text)] :
        /\ sp.start < sp.end
        /\ \A k \in (sp.start + 1)..sp.end : text[k] # " "
        /\ (sp.start = 0 \/ text[sp.start] = " ")
        /\ (sp.end = Len(text) \/ text[sp.end + 1] = " ")}

\* A substring that looks like a link: a dot between two other characters.
LinkLike(tok) ==
    \E k \in 2..(Len(tok) - 1) : tok[k] = "." /\ tok[k - 1] # "." /\ tok[k + 1] # "."

RECURSIVE SortSpans(_)
SortSpans(S) ==
    IF S = {} THEN <<>>
    ELSE LET m == CHOOSE m \in S : \A o \in S : m.start <= o.start
         IN <<m>> \o SortSpans(S \ {m})

\* UrlMatcher.search: the spans of the link-like substrings of the text that
\* match, in text order.
UrlSearch(blacklist, whitelist, text) ==
    SortSpans({sp \in Tokens(text) :
                  LET tok == SubSeq(text, sp.start + 1, sp.end)
                  IN LinkLike(tok) /\ UrlMatch(blacklist, whitelist, tok)})

\* _match_mention with filter_mention left at False.
MatchMention(mention) == FALSE

Placeholder == AddSurrogate(<<"*", "*", "*">>)

\* The first loop of _process_message keeping every entity it visits.
RECURSIVE EntityLoopKeepAll(_, _, _, _, _, _)
EntityLoopKeepAll(blacklist, whitelist, text, ents, kept, i) ==
    IF i > Len(ents) THEN [text |-> text, ents |-> ents, kept |-> kept]
    ELSE LET e == ents[i]
             inner == PySlice(text, e.offset, e.offset + e.length)
             replace == \/ e.kind = "Url" /\ UrlMatch(blacklist, whitelist, inner)
                        \/ e.kind \in {"Mention", "TextUrl"} /\ MatchMention(inner)
         IN IF replace
            THEN EntityLoopKeepAll(
                    blacklist, whitelist,
                    PySlice(text, 0, e.offset) \o Placeholder
                        \o PySlice(text, e.offset + e.length, Len(text)),
                    update_entities_params(ents, e.offset, e.offset + e.length,
                                           Len(Placeholder) - e.length),
                    Append(kept, i), i + 1)
            ELSE EntityLoopKeepAll(blacklist, whitelist, text, ents, Append(kept, i), i + 1)

\* The first loop of _process_message, from entity i on: message.entities is
\* gone through in order and updated in place, kept lists the places of the
\* entities appended to filtered_entities (the same objects).
RECURSIVE EntityLoop(_, _, _, _, _, _)
EntityLoop(blacklist, whitelist, text, ents, kept, i) ==
    IF i > Len(ents) THEN [text |-> text, ents |-> ents, kept |-> kept]
    ELSE LET e == ents[i]
             inner == PySlice(text, e.offset, e.offset + e.length)
             replace == \/ e.kind = "Url" /\ UrlMatch(blacklist, whitelist, inner)
                        \/ e.kind \in {"Mention", "TextUrl"} /\ MatchMention(inner)
             drop == e.kind = "TextUrl" /\ UrlMatch(blacklist, whitelist, e.url)
         IN IF replace
            THEN EntityLoop(blacklist, whitelist,
                            PySlice(text, 0, e.offset) \o Placeholder
                                \o PySlice(text, e.offset + e.length, Len(text)),
                            update_entities_params(ents, e.offset, e.offset + e.length,
                                                   Len(Placeholder) - e.length),
                            kept, i + 1)
            ELSE EntityLoop(blacklist, whitelist, text, ents,
                            IF drop THEN kept ELSE Append(kept, i), i + 1)

\* The second loop: the spans search found in the text as it was, each moved
\* by offset_error, replaced, and the kept entities updated.
RECURSIVE SearchLoop(_, _, _, _)
SearchLoop(found, text, ents, offset_error) ==
    IF found = <<>> THEN [text |-> text, ents |-> ents]
    ELSE LET actual_start == Head(found).start + offset_error
             actual_end == Head(found).end + offset_error
             diff == Len(Placeholder) - (Head(found).end - Head(found).start)
         IN SearchLoop(Tail(found),
                       PySlice(text, 0, actual_start) \o Placeholder
                           \o PySlice(text, actual_end, Len(text)),
                       update_entities_params(ents, actual_start, actual_end, diff),
                       offset_error + diff)

\* UrlMessageFilter._process_message: the text and entities of the message
\* returned (with FilterAction.CONTINUE).
UrlProcessMessage(blacklist, whitelist, m) ==
    LET Second(l1) ==
            LET filtered == [k \in 1..Len(l1.kept) |-> l1.ents[l1.kept[k]]]
                Replaced(found) ==
                    LET Result(l2) == [text |-> DelSurrogate(l2.text), entities |-> l2.ents]
                    IN CHOOSE r \in {Result(l2) :
                                        l2 \in {SearchLoop(found, l1.text, filtered, 0)}} : TRUE
            IN CHOOSE r \in {Replaced(found) :
                                found \in {UrlSearch(blacklist, whitelist, l1.text)}} : TRUE
    IN CHOOSE r \in {Second(l1) :
                        l1 \in {EntityLoop(blacklist, whitelist, AddSurrogate(m.text),
                                            m.entities, <<>>, 1)}} : TRUE

\* The messages the filter is run on: a URL between a prefix and a suffix,
\* covered by a URL entity, with at most one other entity, more or less
\* overlapping it; the entities in the order of their offsets.
UfPrefixes == {<<>>, <<"x", " ">>, <<"U+1F600", " ">>}
UfUrls == {<<"a", ".", "b">>, <<"h", ":", "/", "/", "a", ".", "b">>, <<"a", ".", "b", "/", "c">>}
UfSuffixes == {<<>>, <<" ", "y">>}

UfMessage(prefix, url, suffix, others) ==
    LET u == UrlEntity("Url", Len(AddSurrogate(prefix)), Len(url))
        before == SelectSeq(others, LAMBDA e : e.offset < u.offset)
        after == SelectSeq(others, LAMBDA e : e.offset >= u.offset)
    IN [text |-> prefix \o url \o suffix, entities |-> before \o <<u>> \o after]

BoldSpans(n) == {UrlEntity("Bold", sp.offset, sp.length) : sp \in SpansIn(n)}

MaxOtherEntities == 1

UfMessages ==
    UNION {{UfMessage(prefix, url, suffix, others) :
                others \in SeqsUpTo(BoldSpans(Len(AddSurrogate(prefix \o url \o suffix))),
                                    MaxOtherEntities)} :
           prefix \in UfPrefixes, url \in UfUrls, suffix \in UfSuffixes}

SeeNow ==
    <<"s", "e", "e", " ", "h", "t", "t", "p", ":", "/", "/", "x", ".", "t", "e", "s", "t",
      " ", "n", "o", "w">>

\* "see http://x.test now" with one URL span of the given offset and length.
SeeNowMessage(offset, length) ==
    [text |-> SeeNow, entities |-> <<UrlEntity("Url", offset, length)>>]

UfInit ==
    /\ url_input \in [message : UfMessages \cup {SeeNowMessage(4, 13), SeeNowMessage(4, 14)},
                      blacklist : {{}}, whitelist : {{}}]
    /\ url_result = NoCall

\* config.filters.process(message) of a UrlMessageFilter.
UfProcess ==
    /\ url_result = NoCall
    /\ url_result' = UrlProcessMessage(url_input.blacklist, url_input.whitelist,
                                       url_input.message)
    /\ UNCHANGED <<url_input, spliceVars, kwVars, fltVars, pgVars, poolVars, dbVars, procVars>>

InitUrlFilter == UfInit /\ SpliceIdle /\ KwIdle /\ FltIdle /\ DbIdle /\ ProcIdle /\ PoolIdle
NextUrlFilter == UfProcess
SpecUrlFilter == InitUrlFilter /\ [][NextUrlFilter]_vars

\* The URL entities of the message whose range is a URL of the text: a
\* link-like run of characters with no space in it, whole.
CoveredUrls(m) ==
    {k \in 1..Len(m.entities) :
        /\ m.entities[k].kind = "Url"
        /\ [start |-> m.entities[k].offset,
            end |-> m.entities[k].offset + m.entities[k].length]
               \in Tokens(AddSurrogate(m.text))
        /\ LinkLike(PySlice(AddSurrogate(m.text), m.entities[k].offset,
                            m.entities[k].offset + m.entities[k].length))}

\* The text with the range of the URL entity replaced by the placeholder.
Redacted(m, e) ==
    LET t == AddSurrogate(m.text)
    IN DelSurrogate(SubSeq(t, 1, e.offset) \o Placeholder
                    \o SubSeq(t, e.offset + e.length + 1, Len(t)))

SeeStarsNow == <<"s", "e", "e", " ", "*", "*", "*", " ", "n", "o", "w">>

\* The general half of C21: a message with one URL, covered by a URL entity,
\* comes back with exactly that URL replaced by the placeholder and with no
\* URL span left.
UrlRedacted ==
    (url_result # NoCall /\ CoveredUrls(url_input.message) # {})
    => /\ \A k \in CoveredUrls(url_input.message) :
             url_result.text = Redacted(url_input.message, url_input.message.entities[k])
       /\ \A k \in 1..Len(url_result.entities) : url_result.entities[k].kind # "Url"

\* C21, as stated. A URL covered by a URL entity is replaced by the
\* placeholder and no span is left for it; "see http://x.test now" with the
\* URL span (4,14) comes back as "see *** now" with no spans.
C21_UrlRedacted ==
    /\ UrlRedacted
    /\ (url_result # NoCall /\ url_input.message = SeeNowMessage(4, 14))
       => url_result = [text |-> SeeStarsNow, entities |-> <<>>]

\* C21, amended. A URL covered by a URL entity is replaced by the placeholder
\* and no span is left for it; "see http://x.test now" with the URL span of
\* offset 4 and length 13 comes back as "see *** now" with no spans.
C21_UrlRedactedSpan13 ==
    /\ UrlRedacted
    /\ (url_result # NoCall /\ url_input.message = SeeNowMessage(4, 13))
       => url_result = [text |-> SeeStarsNow, entities |-> <<>>]

\* "see http://x.test now" with the span (4,13) has been filtered: the text is
\* "see *** now" and no span is left.
C21_Witness ==
    /\ url_result # NoCall
    /\ url_input.message = SeeNowMessage(4, 13)
    /\ CoveredUrls(url_input.message) = {1}
    /\ url_result.text = SeeStarsNow
    /\ url_result.entities = <<>>

(***************************************************************************)
(* PostgresDatabase and its connection pool: src/telemirror/storage.py.    *)
(* Every operation runs inside __pg_cursor, which takes a connection of    *)
(* the pool for the time of its body. The handlers awaiting an operation   *)
(* are the callers; the pool holds MaxConn connections (max_conn).         *)
(***************************************************************************)
MaxConn == 1
MaxCallers == 2

PgOpNames == {"insert", "insert_batch", "get_messages", "get_messages_batch",
              "delete_messages", "delete_messages_batch"}

PgErrors == {"OperationalError", "DatabaseError", "Exception"}

IdleOp == [name |-> "none", pc |-> "idle", holds |-> 0, err |-> "none"]

PoolInit ==
    /\ pool_out = 0
    /\ pg_ops = [i \in 1..MaxCallers |-> IdleOp]

nonPoolVars == <<spliceVars, kwVars, fltVars, pgVars, urlVars, dbVars, procVars>>

Ended(op) == op.pc \in {"idle", "returned", "raised"}

\* The connection context left without giving the connection back when an
\* exception goes through it.
PutConnOnSuccess(holds, err) == IF err = "none" THEN 0 ELSE holds

\* async with self.connection_pool.connection() as con, on the way out: the
\* connection goes back to the pool, exception or not. What the caller holds
\* afterwards.
PutConn(holds, err) == 0

\* The operation leaves __pg_cursor, normally or by the exception err.
Leave(i, err) ==
    LET held == PutConn(pg_ops[i].holds, err)
    IN /\ pg_ops' = [pg_ops EXCEPT ![i].pc = IF err = "none" THEN "returned" ELSE "raised",
                                   ![i].holds = held,
                                   ![i].err = err]
       /\ pool_out' = pool_out - (pg_ops[i].holds - held)

\* A handler awaits an operation: __pg_cursor is entered and asks the pool for
\* a connection.
PgCall ==
    \E i \in 1..MaxCallers, name \in PgOpNames :
        /\ Ended(pg_ops[i])
        /\ pg_ops' = [pg_ops EXCEPT ![i] = [name |-> name, pc |-> "connecting",
                                            holds |-> 0, err |-> "none"]]
        /\ UNCHANGED <<pool_out, nonPoolVars>>

\* The pool hands out a connection that is free.
PgConnect ==
    \E i \in 1..MaxCallers :
        /\ pg_ops[i].pc = "connecting"
        /\ pool_out < MaxConn
        /\ pool_out' = pool_out + 1
        /\ pg_ops' = [pg_ops EXCEPT ![i].pc = "execute", ![i].holds = 1]
        /\ UNCHANGED nonPoolVars

\* The pool has no connection to give in time: connection() raises.
PgPoolTimeout ==
    \E i \in 1..MaxCallers :
        /\ pg_ops[i].pc = "connecting"
        /\ pg_ops' = [pg_ops EXCEPT ![i].pc = "raised", ![i].err = "PoolTimeout"]
        /\ UNCHANGED <<pool_out, nonPoolVars>>

\* What follows an exception in the body of __pg_cursor: the except clauses.
AfterError(i, err) ==
    IF err = "OperationalError"
    THEN pg_ops' = [pg_ops EXCEPT ![i].pc = "check", ![i].err = err] /\ pool_out' = pool_out
    ELSE IF err = "DatabaseError"
    THEN pg_ops' = [pg_ops EXCEPT ![i].pc = "rollback", ![i].err = err] /\ pool_out' = pool_out
    ELSE Leave(i, err)

\* cursor.execute or executemany returns or raises.
PgExecute ==
    \E i \in 1..MaxCallers, outcome \in {"none"} \cup PgErrors :
        /\ pg_ops[i].pc = "execute"
        /\ IF outcome # "none" THEN AfterError(i, outcome)
           ELSE IF pg_ops[i].name \in {"get_messages", "get_messages_batch"}
           THEN pg_ops' = [pg_ops EXCEPT ![i].pc = "fetchall"] /\ pool_out' = pool_out
           ELSE Leave(i, "none")
        /\ UNCHANGED nonPoolVars

\* cursor.fetchall of a lookup returns or raises.
PgFetchAll ==
    \E i \in 1..MaxCallers, outcome \in {"none"} \cup PgErrors :
        /\ pg_ops[i].pc = "fetchall"
        /\ IF outcome # "none" THEN AfterError(i, outcome) ELSE Leave(i, "none")
        /\ UNCHANGED nonPoolVars

\* except OperationalError: connection_pool.check() returns or raises; an
\* exception leaves __pg_cursor either way.
PgCheck ==
    \E i \in 1..MaxCallers, outcome \in {"OperationalError", "Exception"} :
        /\ pg_ops[i].pc = "check"
        /\ Leave(i, outcome)
        /\ UNCHANGED nonPoolVars

\* except DatabaseError: con.rollback() returns or raises; an exception
\* leaves __pg_cursor either way.
PgRollback ==
    \E i \in 1..MaxCallers, outcome \in {"DatabaseError", "Exception"} :
        /\ pg_ops[i].pc = "rollback"
        /\ Leave(i, outcome)
        /\ UNCHANGED nonPoolVars

InitPool == PoolInit /\ SpliceIdle /\ KwIdle /\ FltIdle /\ DbIdle /\ ProcIdle /\ UrlIdle

NextPool ==
    \/ PgCall
    \/ PgConnect
    \/ PgPoolTimeout
    \/ PgExecute
    \/ PgFetchAll
    \/ PgCheck
    \/ PgRollback

SpecPool == InitPool /\ [][NextPool]_vars

\* The connections the callers hold.
HeldBy(S) == Cardinality({i \in S : pg_ops[i].holds = 1})

\* C23. An operation holds exactly one connection of the pool while its
\* statement runs or its error is handled, and none once it has ended,
\* whether it returned or raised; the connections checked out are those the
\* operations under way hold, so none is checked out when all have ended.
C23_ConnectionsReturned ==
    /\ \A i \in 1..MaxCallers :
          /\ pg_ops[i].holds \in {0, 1}
          /\ pg_ops[i].pc \in {"execute", "fetchall", "check", "rollback"}
                => pg_ops[i].holds = 1
          /\ Ended(pg_ops[i]) => pg_ops[i].holds = 0
    /\ pool_out = HeldBy(1..MaxCallers)
    /\ (\A i \in 1..MaxCallers : Ended(pg_ops[i])) => pool_out = 0

\* Two operations have ended, one by the exception of its statement after
\* the rollback, one lookup normally: nothing is checked out.
C23_Witness ==
    /\ pool_out = 0
    /\ pg_ops[1].pc = "raised"
    /\ pg_ops[1].err = "DatabaseError"
    /\ pg_ops[2].pc = "returned"
    /\ pg_ops[2].name = "get_messages"


(***************************************************************************)
(* The calls of one delete event.                                          *)
(***************************************************************************)
\* The delete handler has left its loop over deleting_per_channel.
DeleteLoopLeft(t) ==
    /\ t.kind = "delete_message"
    /\ t.log # <<>>
    /\ t.log[Len(t.log)].name = "delete_messages_batch"

\* The places of the log of t at which delete_messages was called on dest.
DeleteCalls(t, dest) ==
    {k \in 1..Len(t.log) : t.log[k].name = "delete_messages" /\ t.log[k].dest = dest}

\* The looked-up records of t held by dest, when a direction to dest mirrors
\* deletes.
DeletableRecords(t, dest) ==
    {r \in 1..Len(t.found) :
        /\ t.found[r].mirror_channel = dest
        /\ \E c \in 1..Len(chat_mapping) :
              chat_mapping[c].dest = dest /\ ~chat_mapping[c].disable_delete}

\* C28. For one delete event, exactly one delete call is issued per destination
\* that has a looked-up record under a delete-enabled direction, its id list
\* holds the mirror id of each such record exactly once, and no delete call is
\* issued for a destination all of whose directions disable deletion.
C28_OneDeletePerDestination ==
    \A i \in 1..Len(tasks) :
        DeleteLoopLeft(tasks[i])
        => \A dest \in {chat_mapping[c].dest : c \in 1..Len(chat_mapping)} :
              LET calls == DeleteCalls(tasks[i], dest)
                  recs == DeletableRecords(tasks[i], dest)
              IN /\ Cardinality(calls) = (IF recs = {} THEN 0 ELSE 1)
                 /\ \A k \in calls : \A r \in recs :
                       Cardinality({n \in 1..Len(tasks[i].log[k].arg) :
                                       tasks[i].log[k].arg[n] = tasks[i].found[r].mirror_id}) = 1


(***************************************************************************)
(* The order of the calls of one new-message or album handler.             *)
(***************************************************************************)
\* The places of the log of t at which a send was started.
SendPlaces(t) == {k \in 1..Len(t.log) : t.log[k].name \in SendNames}

\* C29. Within one new-message or album handler, the send to a direction is
\* not started until the send of the previous direction has returned or raised
\* and, when it succeeded, the insert of its record has completed; at most one
\* call of the handler is in flight at any time.
C29_SendsOneAtATime ==
    \A i \in 1..Len(tasks) :
        tasks[i].kind \in {"new_message", "new_album"}
        => LET log == tasks[i].log
           IN /\ \A k \in 1..Len(log) : log[k].outcome = "pending" => k = Len(log)
              /\ \A j, k \in SendPlaces(tasks[i]) :
                    j < k
                    => /\ log[j].outcome # "pending"
                       /\ log[j].outcome = "ok"
                          => /\ j + 1 < k
                             /\ log[j + 1].name \in InsertNames
                             /\ log[j + 1].dir = log[j].dir
                             /\ log[j + 1].outcome = "ok"

\* On Postgres, a handler waits for its second send, the first having
\* succeeded and its record being written.
C29_Witness ==
    /\ backend = "postgres"
    /\ \E i \in 1..Len(tasks) :
          /\ tasks[i].kind \in {"new_message", "new_album"}
          /\ tasks[i].pc = "await_client"
          /\ \E j \in SendPlaces(tasks[i]) :
                /\ j < Len(tasks[i].log)
                /\ tasks[i].log[j].outcome = "ok"
                /\ tasks[i].log[j + 1].name \in InsertNames
                /\ tasks[i].log[j + 1].outcome = "ok"
                /\ Len(tasks[i].log) \in SendPlaces(tasks[i])


(***************************************************************************)
(* The Mirror Index under an edit event.                                   *)
(***************************************************************************)
\* The records the index holds, each with the key it is held under.
IndexRecords(st) ==
    UNION {{<<st[e].key, st[e].value[r]>> : r \in 1..Len(st[e].value)} : e \in 1..Len(st)}

\* C30. Handling an edit event never inserts, updates or removes a record:
\* every step of an edit handler leaves the set of records of the Mirror Index
\* as it was, whatever the filter chains and the edit calls give.
C30_EditLeavesIndex ==
    [][ \A i \in 1..Len(tasks) :
          (/\ tasks[i].kind = "edit_message"
           /\ tasks[i].pc # "done"
           /\ tasks'[i] # tasks[i])
          => IndexRecords(storage') = IndexRecords(storage) ]_vars

\* An edit handler has found the record of the edited message, has edited the
\* copy and has ended, and the record is in the index.
C30_Witness ==
    \E i \in 1..Len(tasks) :
        /\ tasks[i].kind = "edit_message"
        /\ tasks[i].pc = "done"
        /\ ~tasks[i].aborted
        /\ tasks[i].found # <<>>
        /\ \E k \in 1..Len(tasks[i].log) :
              tasks[i].log[k].name = "edit_message" /\ tasks[i].log[k].outcome = "ok"
        /\ \A r \in 1..Len(tasks[i].found) :
              <<BuildMessageKey(tasks[i].msgs[1].id, SourceChat), tasks[i].found[r]>>
                 \in IndexRecords(storage)


(***************************************************************************)
(* The records of an album.                                                *)
(***************************************************************************)
\* C31. For an album of k items sent to a destination where the send returns
\* k messages, exactly k records are inserted for that destination, the n-th
\* pairing the id of the n-th album item with the id of the n-th message
\* returned.
C31_AlbumRecordsPairItems ==
    \A i \in 1..Len(tasks) :
        tasks[i].kind = "new_album"
        => \A k \in 1..Len(tasks[i].log) :
              tasks[i].log[k].name = "insert_batch"
              => LET recs == tasks[i].log[k].arg
                     send == tasks[i].log[k - 1]
                 IN /\ Len(recs) = Len(tasks[i].msgs)
                    /\ \A n \in 1..Len(recs) :
                          /\ recs[n].original_id = tasks[i].msgs[n].id
                          /\ recs[n].original_channel = SourceChat
                          /\ recs[n].mirror_channel = send.dest
                          /\ recs[n].mirror_id = recs[1].mirror_id + n - 1
                          /\ Mirrored(recs[n], send.dir, "new_album") \in mirrored

\* An album of two items has been sent and the insert of its two records has
\* returned.
C31_Witness ==
    \E i \in 1..Len(tasks) :
        /\ tasks[i].kind = "new_album"
        /\ \E k \in 1..Len(tasks[i].log) :
              /\ tasks[i].log[k].name = "insert_batch"
              /\ tasks[i].log[k].outcome = "ok"
              /\ Len(tasks[i].log[k].arg) = 2
              /\ tasks[i].log[k].arg[1].original_id # tasks[i].log[k].arg[2].original_id


(***************************************************************************)
(* The reply target of a copy-mode send.                                   *)
(***************************************************************************)
CopySendNames == {"send_message", "send_file"}

\* The mirror ids, in chat dest, of the records the handler t found for the
\* message its message replies to.
ReplyCandidates(t, dest) ==
    {t.reply_to_messages[r].mirror_id : r \in
        {r \in 1..Len(t.reply_to_messages) : t.reply_to_messages[r].mirror_channel = dest}}

\* C32. In a copy-mode send to destination chat D of a source message that
\* replies to message r, the reply target passed is the mirror id of a record
\* of (r, source chat) whose mirror chat is D, or, when there is none, the
\* destination topic id of the direction or no reply target; it is never the
\* mirror id of a record of another destination chat.
C32_ReplyTargetOfDestination ==
    \A i \in 1..Len(tasks) :
        (tasks[i].kind \in {"new_message", "new_album"} /\ tasks[i].msgs[1].is_reply)
        => /\ \A r \in 1..Len(tasks[i].reply_to_messages) :
                 /\ tasks[i].reply_to_messages[r].original_id = tasks[i].msgs[1].reply_to_msg_id
                 /\ tasks[i].reply_to_messages[r].original_channel = SourceChat
                 /\ \E c \in mirrored : c.rec = tasks[i].reply_to_messages[r]
           /\ \A k \in 1..Len(tasks[i].log) :
                 tasks[i].log[k].name \in CopySendNames
                 => LET e == tasks[i].log[k]
                        cands == ReplyCandidates(tasks[i], e.dest)
                    IN IF cands # {} THEN e.arg.reply_to \in cands
                       ELSE e.arg.reply_to = chat_mapping[e.dir].to_topic_id

\* A reply to a message mirrored to two chats has been sent to one of them as
\* a reply to the copy held by that chat, the other chat holding the copy
\* under another id.
C32_Witness ==
    \E i \in 1..Len(tasks) :
        /\ tasks[i].kind = "new_message"
        /\ tasks[i].msgs[1].is_reply
        /\ \E k \in 1..Len(tasks[i].log) :
              LET e == tasks[i].log[k]
              IN /\ e.name = "send_message"
                 /\ e.arg.reply_to \in ReplyCandidates(tasks[i], e.dest)
                 /\ \E r \in 1..Len(tasks[i].reply_to_messages) :
                       /\ tasks[i].reply_to_messages[r].mirror_channel # e.dest
                       /\ tasks[i].reply_to_messages[r].mirror_id # e.arg.reply_to


(***************************************************************************)
(* Termination of the handlers. The event loop runs every task that is     *)
(* ready, and every call of the client and of the database returns or      *)
(* raises.                                                                 *)
(***************************************************************************)
\* A handler is ready to run, awaits the client, awaits the database: the
\* conditions under which Start, ClientReturns and DbReturns are enabled.
StartDue == \E i \in 1..Len(tasks) : tasks[i].pc = "start"
ClientDue == \E i \in 1..Len(tasks) : tasks[i].pc = "await_client"
DbDue == \E i \in 1..Len(tasks) : tasks[i].pc = "await_db"

\* Weak fairness of Start, ClientReturns and DbReturns, the enabling condition
\* of each written out.
SpecLive ==
    /\ Init /\ [][Next]_vars
    /\ ([]<>(~StartDue) \/ []<>(<<Start>>_vars))
    /\ ([]<>(~ClientDue) \/ []<>(<<ClientReturns>>_vars))
    /\ ([]<>(~DbDue) \/ []<>(<<DbReturns>>_vars))

\* The calls a handler makes for the directions of its event.
AttemptNames == SendNames \cup RemoteNames

\* The places of the log of t at which a direction was attempted.
Attempts(t) == {k \in 1..Len(t.log) : t.log[k].name \in AttemptNames}

\* No handler goes back to a direction: the attempts of a handler are made
\* for one place of its loop after the other.
NoRetry ==
    \A i \in 1..Len(tasks) :
        \A j, k \in Attempts(tasks[i]) :
            j < k => tasks[i].log[j].dir < tasks[i].log[k].dir

\* C33. Every handler invocation (new message, album, edit, delete) ends,
\* given that each call of the messaging client and of the Mirror Index
\* returns or raises, and it attempts each direction at most once for the
\* event: a failed send, edit or delete is not tried again.
C33_HandlersTerminate ==
    /\ []NoRetry
    /\ \A i \in 1..MaxEvents :
          (Len(tasks) >= i) ~> (Len(tasks) >= i /\ tasks[i].pc = "done")

\* A handler has ended after a send that raised and a later send to another
\* direction.
C33_Witness ==
    \E i \in 1..Len(tasks) :
        /\ tasks[i].kind \in {"new_message", "new_album"}
        /\ tasks[i].pc = "done"
        /\ \E j, k \in Attempts(tasks[i]) :
              /\ j < k
              /\ tasks[i].log[j].outcome = "raise"
              /\ tasks[i].log[k].outcome = "ok"


(***************************************************************************)
(* The in-memory index under interleaved handlers.                         *)
(***************************************************************************)
\* The Database calls the handlers make (delete_messages, in a log, is the
\* call of the client; no handler calls Database.delete_messages).
DbNames ==
    {"insert", "insert_batch", "get_messages", "get_messages_batch", "delete_messages_batch"}

\* The index after the whole of each in-memory Database call of entries, in
\* order.
RECURSIVE ApplyAll(_, _)
ApplyAll(st, entries) ==
    IF entries = <<>> THEN st
    ELSE ApplyAll(IF Head(entries).name \in DbNames
                  THEN DbApply("memory", st, capacity,
                               [name |-> Head(entries).name, arg |-> Head(entries).arg]).storage
                  ELSE st,
                  Tail(entries))

\* The calls task i makes in the step.
NewEntries(i) == SubSeq(tasks'[i].log, Len(tasks[i].log) + 1, Len(tasks'[i].log))

\* C34. No operation of the in-memory index holds a suspension point: in every
\* interleaving of the handlers no handler waits inside an insert, a batch
\* insert, a lookup, a batch lookup or a batch delete (the single delete is
\* called by no handler), and every step leaves the index as the whole of the
\* calls made in it leave it, so no handler sees a batch applied in part.
C34_MemoryOpsAtomic ==
    [][ backend = "memory"
        => /\ \A i \in 1..Len(tasks') :
                 /\ tasks'[i].pc # "await_db"
                 /\ \A k \in 1..Len(tasks'[i].log) :
                       tasks'[i].log[k].name \in DbNames => tasks'[i].log[k].outcome = "ok"
           /\ \/ /\ storage' = storage
                 /\ \A i \in 1..Len(tasks) :
                       \A k \in 1..Len(NewEntries(i)) :
                          NewEntries(i)[k].name \in DbNames
                          => ApplyAll(storage, <<NewEntries(i)[k]>>) = storage
              \/ \E i \in 1..Len(tasks) :
                    /\ tasks'[i] # tasks[i]
                    /\ tasks[i].pc # "done"
                    /\ storage' = ApplyAll(storage, NewEntries(i)) ]_vars

\* On the in-memory backend, the two records of an album are in the index
\* while another handler is waiting for the client.
C34_Witness ==
    /\ backend = "memory"
    /\ \E i, j \in 1..Len(tasks) :
          /\ i # j
          /\ tasks[j].pc = "await_client"
          /\ tasks[i].kind = "new_album"
          /\ \E k \in 1..Len(tasks[i].log) :
                /\ tasks[i].log[k].name = "insert_batch"
                /\ Len(tasks[i].log[k].arg) = 2
                /\ \A n \in 1..2 :
                      DbGetMessages(storage, tasks[i].log[k].arg[n].original_id, SourceChat)
                         # <<>>


(***************************************************************************)
(* The Mirror Index under a delete event.                                  *)
(***************************************************************************)
\* C35. A delete event for the ids I of the source chat removes from the
\* Mirror Index only records whose original chat is the source chat and whose
\* original id is in I: every record of another original message, one whose
\* original id is the mirror id of a deleted copy included, stays as it was.
C35_DeleteRemovesOnlyDeleted ==
    [][ \A i \in 1..Len(tasks) :
          (/\ tasks[i].kind = "delete_message"
           /\ tasks[i].pc # "done"
           /\ tasks'[i] # tasks[i])
          => /\ IndexRecords(storage') \subseteq IndexRecords(storage)
             /\ \A kr \in IndexRecords(storage) \ IndexRecords(storage') :
                   /\ kr[2].original_channel = SourceChat
                   /\ \E n \in 1..Len(tasks[i].ids) : kr[2].original_id = tasks[i].ids[n] ]_vars


(***************************************************************************)
(* Legacy boolean actions in the composite's match statement:              *)
(* src/telemirror/messagefilters/base.py.                                  *)
(***************************************************************************)
\* C36. When a child returns the legacy boolean False, and every child before
\* it went on (CONTINUE or True), CompositeMessageFilter.process returns
\* DISCARD at that child without running the remaining children, as it does
\* for FilterAction.DISCARD.
C36_LegacyFalseDiscards ==
    flt_result # NoCall =>
        \A i \in 1..Len(chain) :
            (/\ ActionOf(chain, flt_input, i) = "False"
             /\ \A j \in 1..(i - 1) :
                    ActionOf(chain, flt_input, j) \in {"CONTINUE", "True"})
            => /\ flt_result.action = "DISCARD"
               /\ Len(flt_result.ran) = i


(***************************************************************************)
(* The message each direction's chain is given:                            *)
(* CopyEventMessage of src/telemirror/mixins.py.                           *)
(***************************************************************************)
\* What the chain of direction d makes of the message (album) msgs.
ChainOn(t, d, msgs) ==
    ConfigFiltersProcess(chat_mapping[d].filters,
                         IF t.kind = "new_album" THEN msgs ELSE msgs[1],
                         IF t.kind = "new_album" THEN "Album" ELSE "NewMessage",
                         t.kind = "new_album")

\* The handler waits for the send of direction t.dir.
AtSend(t) ==
    /\ t.kind \in {"new_message", "new_album"}
    /\ t.pc = "await_client"
    /\ t.log[Len(t.log)].name \in SendNames

RaisingDirections(t) ==
    {d \in 1..Len(chat_mapping) :
        /\ ~TopicMismatch(chat_mapping[d], t.received[1])
        /\ ~RestrictedRefused(chat_mapping[d], t.received[1])
        /\ ChainOn(t, d, t.received).action = "raise"}

\* The handler of task i takes the step in which a chain raises.
ChainRaises(i) ==
    /\ i <= Len(tasks)
    /\ tasks[i].kind = "new_message" /\ tasks[i].pc # "done"
    /\ Len(tasks') >= i /\ tasks'[i].kind = "new_message"
    /\ tasks'[i].pc = "done"
    /\ tasks'[i].dir \in RaisingDirections(tasks'[i])

\* C38. If a direction's chain raises during a new-message event the handler
\* stops there: it is finished (the exception is caught by the handler's
\* wrapper), it has made no call for that direction nor for a later one, and
\* the step leaves in the index the records written for the earlier
\* directions.
C38_ChainRaiseStopsHandler ==
    /\ [](\A i \in 1..Len(tasks) :
            tasks[i].kind = "new_message" =>
                \A d \in RaisingDirections(tasks[i]) :
                    /\ tasks[i].dir <= d
                    /\ tasks[i].dir = d => (tasks[i].pc = "done" /\ tasks[i].aborted)
                    /\ \A k \in 1..Len(tasks[i].log) : tasks[i].log[k].dir < d)
    /\ [][\A i \in 1..MaxEvents : ChainRaises(i) =>
            \A kr \in IndexRecords(storage) :
                (/\ kr[2].original_id = tasks'[i].received[1].id
                 /\ kr[2].original_channel = SourceChat)
                => kr \in IndexRecords(storage')]_vars

\* A handler has stopped at the second direction, whose chain raised, after
\* the first direction's send and record; the third direction got no call.
C38_Witness ==
    \E i \in 1..Len(tasks) :
        /\ tasks[i].kind = "new_message"
        /\ tasks[i].pc = "done" /\ tasks[i].aborted
        /\ tasks[i].dir = 2 /\ 2 \in RaisingDirections(tasks[i])
        /\ Len(chat_mapping) = 3
        /\ \E k \in 1..Len(tasks[i].log) :
              /\ tasks[i].log[k].name = "insert" /\ tasks[i].log[k].outcome = "ok"
              /\ tasks[i].log[k].dir = 1
        /\ \E kr \in IndexRecords(storage) :
              /\ kr[2].original_id = tasks[i].received[1].id
              /\ kr[2].mirror_channel = 10


(***************************************************************************)
(* The destination topic in the arguments of a copy-mode send:             *)
(* new_message and new_album of src/telemirror/mirroring.py, send_message  *)
(* of src/telemirror/_patch/sending.py.                                    *)
(***************************************************************************)
\* The places of the copy-mode sends in the log of a handler of a new
\* message or album.
CopySends(t) ==
    IF t.kind \in {"new_message", "new_album"}
    THEN {k \in 1..Len(t.log) : t.log[k].name \in CopySendNames}
    ELSE {}

\* C39. A copy-mode send of a direction with destination topic t carries t as
\* the reply target when the handler holds no mirrored reply target for that
\* destination, and as the reply topic id together with the mirrored reply
\* target when it holds one; no copy-mode send passes a reply topic id without
\* a reply target.
C39_TopicInEverySend ==
    \A i \in 1..Len(tasks) : \A k \in CopySends(tasks[i]) :
        LET e == tasks[i].log[k]
            t == chat_mapping[e.dir].to_topic_id
            cands == ReplyCandidates(tasks[i], e.dest)
        IN /\ t # None =>
                IF cands = {}
                THEN e.arg.reply_to = t /\ e.arg.reply_to_topic_id = None
                ELSE e.arg.reply_to \in cands /\ e.arg.reply_to_topic_id = t
           /\ e.arg.reply_to_topic_id # None => e.arg.reply_to # None

\* A message has been sent into topic 9 as a reply to the copy of the message
\* it replies to, with 9 as the reply topic id; that copy had been sent into
\* the topic by the same direction.
C39_Witness ==
    \E i \in 1..Len(tasks) : \E k \in CopySends(tasks[i]) :
        LET e == tasks[i].log[k]
        IN /\ chat_mapping[e.dir].to_topic_id = 9
           /\ e.arg.reply_to \in ReplyCandidates(tasks[i], e.dest)
           /\ e.arg.reply_to_topic_id = 9
           /\ e.outcome = "ok"
           /\ \E c \in mirrored :
                 /\ c.dir = e.dir
                 /\ c.rec.mirror_channel = e.dest
                 /\ c.rec.mirror_id = e.arg.reply_to


(***************************************************************************)
(* Edits and forwarded copies: edit_message of src/telemirror/mirroring.py.*)
(***************************************************************************)
\* The destination chats the source chat reaches by forward-mode directions
\* only.
ForwardOnlyChats ==
    {chat_mapping[d].dest : d \in 1..Len(chat_mapping)}
    \ {chat_mapping[d].dest : d \in {d \in 1..Len(chat_mapping) :
                                        chat_mapping[d].mode # "forward"}}

\* C40. An edit event issues no edit call for a record whose destination chat
\* is reached from the source chat by forward-mode directions only.
C40_ForwardedNeverEdited ==
    \A i \in 1..Len(tasks) :
        tasks[i].kind = "edit_message" =>
            \A k \in 1..Len(tasks[i].log) :
                tasks[i].log[k].name = "edit_message"
                => tasks[i].log[k].dest \notin ForwardOnlyChats

\* An edit handler has finished: it had found the copy of the message in chat
\* 10 and the forwarded one in chat 20, and has edited the first only.
C40_Witness ==
    \E i \in 1..Len(tasks) :
        /\ tasks[i].kind = "edit_message" /\ tasks[i].pc = "done"
        /\ \E r \in 1..Len(tasks[i].found) :
              /\ tasks[i].found[r].mirror_channel \in ForwardOnlyChats
              /\ \E c \in mirrored : c.rec = tasks[i].found[r] /\ c.kind = "new_message"
                                     /\ chat_mapping[c.dir].mode = "forward"
        /\ \E k \in 1..Len(tasks[i].log) :
              /\ tasks[i].log[k].name = "edit_message"
              /\ tasks[i].log[k].outcome = "ok"

=============================================================================
